---- MODULE Spec2Model ----
(***************************************************************************)
(* Model of the article store of obsidian-read-it-later: StorageService    *)
(* (src/src/components/views/ReaderView.tsx, lines 860-1367) over the      *)
(* plugin's in-memory data object and the host's persisted blob            *)
(* (src/src/main.ts).                                                      *)
(*                                                                         *)
(* A content string is a sequence of tokens.  A token stands for a run of  *)
(* characters and counts as one unit of length: "a" and "b" are text      *)
(* without markup, " " is whitespace, "<" is markup, "<p>" and "</p>" are  *)
(* the wrapper the code adds, and each fixed notice of the code is one     *)
(* token that carries the notice's own text.  Lengths are scaled: the      *)
(* chunk size is 3 units and the preview 1 unit, where the code has 50000  *)
(* and 200 characters.                                                     *)
(*                                                                         *)
(* On top of the store: the article context (ArticleProvider,              *)
(* src/unnamed/part_003) with the article list it displays, the content    *)
(* codec (src/src/utils/contentUtils.ts) and the content hook              *)
(* (useArticleContent, src/unnamed/part_000) with the element sequence it  *)
(* shows.  An HTML string handed to the codec is written as the sequence   *)
(* of DOM nodes the host's parser builds from it.  The reader view's own   *)
(* parser (ReaderView.tsx, lines 164-274) is modelled next to the codec,   *)
(* and the store's operations are also modelled step by step, as calls     *)
(* that overlap in time.                                                   *)
(***************************************************************************)
EXTENDS Integers, Sequences, FiniteSets, TLC

VARIABLES data, disk, nextSuffix, handed, last, calls,
          providerArticles, providerError, hookArticle, hookContent, selectedIds,
          toast, effectDue

\* The state of the store and of the host, and the calls of the store's
\* operations that are in flight.
storeVars == <<data, disk, nextSuffix, handed, last, calls>>

\* The state of the article context (its articles and error, part_003:94-96)
\* and of the content hook (its article prop and content, part_000:21-24, the
\* selection of useSelectionManager.ts:9, the titles of the toasts the step
\* that ran last raised and whether the effect of part_000:27-118 is due).
contextVars == <<providerArticles, providerError>>
hookVars == <<hookArticle, hookContent, selectedIds, toast, effectDue>>

vars == <<data, disk, nextSuffix, handed, last, calls,
          providerArticles, providerError, hookArticle, hookContent, selectedIds,
          toast, effectDue>>

\* ------------------------------------------------------------------ bounds

\* Longest article list the model lets the store grow to.
MaxArticles == 2

\* Number of chunk identifiers the model lets uuidv4 hand out.
MaxSuffix == 4

\* ------------------------------------------------------- program constants

\* ReaderView.tsx:864 (50000 characters, scaled).
CONTENT_CHUNK_SIZE == 3

\* ReaderView.tsx:1015, substring(0, 200) (scaled).
PREVIEW_LEN == 1

LostNotice == <<"<p>Content was lost during serialization. Please try refreshing.</p>">>
EmptyNotice == <<"<p>Article content appears to be empty. Please try refreshing.</p>">>
ReassembleNotice == <<"<p>Content could not be reassembled from chunks. The article may be corrupted.</p>">>
LoadNotice == <<"<p>Content could not be loaded properly. The article may be corrupted.</p>">>
ErrorNotice == <<"<p>Error loading article content. Please try refreshing.</p>">>
UpdateNotice == <<"<p>Content could not be saved properly.</p>">>
PreviewTail == <<"... [Content stored in chunks]">>

NoticeTokens ==
  {LostNotice[1], EmptyNotice[1], ReassembleNotice[1], LoadNotice[1],
   ErrorNotice[1], UpdateNotice[1]}

\* Tokens that contain the character '<'.
MarkupTokens == {"<", "<p>", "</p>"} \cup NoticeTokens

\* ------------------------------------------------------------ string helpers

\* content.includes('<')
includesMarkup(s) == \E i \in 1..Len(s) : s[i] \in MarkupTokens

\* content.trim() === ''
isBlank(s) == \A i \in 1..Len(s) : s[i] = " "

\* content.substring(0, n)
substringTo(s, n) == SubSeq(s, 1, IF n < Len(s) THEN n ELSE Len(s))

\* content.substring(n)
substringFrom(s, n) == SubSeq(s, n + 1, Len(s))

\* `<p>${content}</p>`
wrapInParagraph(s) == <<"<p>">> \o s \o <<"</p>">>

\* --------------------------------------------------------------- ChunkCodec

\* splitContentIntoChunks looping while a whole chunk is left (the remainder
\* shorter than a chunk is lost).
RECURSIVE splitContentIntoChunks_WholeOnly(_)
splitContentIntoChunks_WholeOnly(content) ==
  IF Len(content) >= CONTENT_CHUNK_SIZE
    THEN <<substringTo(content, CONTENT_CHUNK_SIZE)>>
           \o splitContentIntoChunks_WholeOnly(substringFrom(content, CONTENT_CHUNK_SIZE))
    ELSE <<>>

\* splitContentIntoChunks that steps on by one character less than a chunk
\* (the chunks overlap).
RECURSIVE splitContentIntoChunks_Overlapping(_)
splitContentIntoChunks_Overlapping(content) ==
  IF Len(content) > 0
    THEN <<substringTo(content, CONTENT_CHUNK_SIZE)>>
           \o splitContentIntoChunks_Overlapping(substringFrom(content, CONTENT_CHUNK_SIZE - 1))
    ELSE <<>>

RECURSIVE splitContentIntoChunks(_)
splitContentIntoChunks(content) ==
  IF Len(content) > 0
    THEN <<substringTo(content, CONTENT_CHUNK_SIZE)>>
           \o splitContentIntoChunks(substringFrom(content, CONTENT_CHUNK_SIZE))
    ELSE <<>>

\* reassembleContentFromChunks prepending each chunk (fullContent = chunk +
\* fullContent).
RECURSIVE reassembleContentFromChunks_Prepend(_, _)
reassembleContentFromChunks_Prepend(chunkIds, contentChunks) ==
  IF chunkIds = <<>>
    THEN <<>>
    ELSE LET chunkId == Head(chunkIds)
             chunk == IF chunkId \in DOMAIN contentChunks
                        THEN contentChunks[chunkId]
                        ELSE <<>>
         IN  reassembleContentFromChunks_Prepend(Tail(chunkIds), contentChunks) \o chunk

\* reassembleContentFromChunks that stops at the first missing chunk.
RECURSIVE reassembleContentFromChunks_StopsAtGap(_, _)
reassembleContentFromChunks_StopsAtGap(chunkIds, contentChunks) ==
  IF chunkIds = <<>> \/ Head(chunkIds) \notin DOMAIN contentChunks
    THEN <<>>
    ELSE contentChunks[Head(chunkIds)]
           \o reassembleContentFromChunks_StopsAtGap(Tail(chunkIds), contentChunks)

\* reassembleContentFromChunks that takes the chunks in the order of their
\* keys (by chunk index), not in the order of the id list.
RECURSIVE reassembleContentFromChunks_KeyOrder(_, _)
reassembleContentFromChunks_KeyOrder(chunkIds, contentChunks) ==
  IF chunkIds = <<>>
    THEN <<>>
    ELSE LET lowest == CHOOSE i \in 1..Len(chunkIds) :
                         \A j \in 1..Len(chunkIds) : chunkIds[i][2] <= chunkIds[j][2]
             chunk == IF chunkIds[lowest] \in DOMAIN contentChunks
                        THEN contentChunks[chunkIds[lowest]]
                        ELSE <<>>
         IN  chunk \o reassembleContentFromChunks_KeyOrder(
                        SubSeq(chunkIds, 1, lowest - 1)
                          \o SubSeq(chunkIds, lowest + 1, Len(chunkIds)),
                        contentChunks)

RECURSIVE reassembleContentFromChunks(_, _)
reassembleContentFromChunks(chunkIds, contentChunks) ==
  IF chunkIds = <<>>
    THEN <<>>
    ELSE LET chunkId == Head(chunkIds)
             chunk == IF chunkId \in DOMAIN contentChunks
                        THEN contentChunks[chunkId]
                        ELSE <<>>
         IN  chunk \o reassembleContentFromChunks(Tail(chunkIds), contentChunks)

\* --------------------------------------------------------------- data model

Ids == {"i1", "i2"}
Urls == {"u1", "u2"}
Statuses == {"unread", "read"}

\* The content strings handed to the store.
Contents ==
  { <<"a">>,                     \* text without markup, short
    <<"<", "a", "b", "a">>,      \* markup, longer than the chunk size
    <<"a", "b", "a", "b">> }     \* text without markup, longer than the chunk size

\* The content strings of the save-and-load round trip: the above and the
\* empty string, a blank string, short markup and text without markup that is
\* shorter than the chunk size by less than the wrapper.
RoundTripContents == Contents \cup { <<>>, <<" ">>, <<"<", "a">>, <<"a", "b">> }

\* An Article as the callers hand it to the store (article.ts:5-22).
Article(id, url, status, content) ==
  [isNull |-> FALSE, id |-> id, url |-> url, status |-> status,
   content |-> content, contentChunkIds |-> <<>>]

\* The (id, url) pairs of the articles handed in: two articles of one url,
\* and two articles of one id.
Identities == {<<"i1", "u1">>, <<"i2", "u1">>, <<"i2", "u2">>}

\* A caller hands in an article that is still unread (the status changes
\* through updateArticleStatus).
Articles ==
  { Article(p[1], p[2], "unread", c) : p \in Identities, c \in Contents }

RoundTripArticles ==
  { Article("i1", "u1", "unread", c) : c \in RoundTripContents }

\* A null entry of a persisted article list.
NullRecord ==
  [isNull |-> TRUE, id |-> "undefined", url |-> "undefined", status |-> "undefined",
   content |-> <<>>, contentChunkIds |-> <<>>]

\* The value under a key of the data object: absent, a list, a map (its values
\* in key order) or a scalar.
Absent == [kind |-> "absent", items |-> <<>>]
ListOf(items) == [kind |-> "list", items |-> items]
MapOf(items) == [kind |-> "map", items |-> items]

NoChunks == [present |-> FALSE, map |-> <<>>]
ChunksOf(m) == [present |-> TRUE, map |-> m]

\* plugin.data = {} (main.ts:42): neither key set.
EmptyData == [articles |-> Absent, chunks |-> NoChunks]

\* ------------------------------------------------------------- loadArticles

\* One pass of the map callback of processArticleData (lines 1179-1242).
processArticle(article, contentChunks) ==
  IF article.isNull
    THEN \* article.id throws inside the try: the catch returns the fallback
         [isNull |-> FALSE, id |-> "undefined", url |-> "undefined",
          status |-> "undefined", content |-> ErrorNotice, contentChunkIds |-> <<>>]
    ELSE LET contentChunkIds == article.contentChunkIds
             reassembledContent ==
               reassembleContentFromChunks(contentChunkIds, contentChunks)
             validContent ==
               IF Len(contentChunkIds) > 0
                 THEN IF Len(reassembledContent) > 0
                        THEN reassembledContent
                        ELSE ReassembleNotice
                 ELSE IF article.content = <<>> \/ isBlank(article.content)
                        THEN LoadNotice
                        ELSE article.content
         IN  [article EXCEPT !.content =
                IF includesMarkup(validContent)
                  THEN validContent
                  ELSE wrapInParagraph(validContent)]

\* The logging of the first record (lines 1163-1176) reads sampleArticle.content
\* outside any per-record try: it throws when the first record is null.
processArticleDataThrows(validArticles) ==
  Len(validArticles) > 0 /\ validArticles[1].isNull

processArticleData(validArticles, contentChunks) ==
  [i \in 1..Len(validArticles) |-> processArticle(validArticles[i], contentChunks)]

\* The value loadArticles takes as the article list (lines 1069-1085): the key
\* of the in-memory data object, else the key of the blob the host reads.
articlesData(d, k) ==
  IF d.articles.kind # "absent" THEN d.articles ELSE k.articles

\* The chunk map loadArticles uses (lines 1113-1125).
loadedChunks(d) == IF d.chunks.present THEN d.chunks.map ELSE <<>>

\* loadArticles without the recovery of lines 1094-1111: a value that is not a
\* list gives the empty list.
loadArticles_ListOnly(d, k) ==
  LET found == articlesData(d, k)
  IN  IF found.kind # "list" THEN <<>>
      ELSE IF processArticleDataThrows(found.items) THEN <<>>
      ELSE processArticleData(found.items, loadedChunks(d))

\* loadArticles (lines 1063-1150) on data object d and persisted blob k.
loadArticles(d, k) ==
  LET found == articlesData(d, k)
      list == IF found.kind = "list" \/ (found.kind = "map" /\ Len(found.items) > 0)
                THEN found.items
                ELSE <<>>
  IN  IF found.kind \in {"absent", "scalar"} THEN <<>>
      ELSE IF found.kind = "map" /\ Len(found.items) = 0 THEN <<>>
      ELSE IF processArticleDataThrows(list) THEN <<>>
      ELSE processArticleData(list, loadedChunks(d))

\* ------------------------------------------------------------- saveArticles

\* chunkIdOf without the token of uuidv4: the article's id and the index only.
chunkIdOf_NoSuffix(articleId, index, suffix) == <<articleId, index, 0>>

\* The chunk id of chunk `index` of an article: the article's id, the index
\* and the token uuidv4 returns, which is fresh on every call (line 1007).
chunkIdOf(articleId, index, suffix) == <<articleId, index, suffix>>

\* The forEach of lines 1006-1010 over the chunks from position `index` on:
\* the chunk ids, the augmented chunk map and the next fresh suffix.
RECURSIVE storeChunks(_, _, _, _, _)
storeChunks(articleId, contentChunksArray, index, contentChunks, suffix) ==
  IF index >= Len(contentChunksArray)
    THEN [chunkIds |-> <<>>, contentChunks |-> contentChunks, suffix |-> suffix]
    ELSE LET chunkId == chunkIdOf(articleId, index, suffix)
             rest == storeChunks(articleId, contentChunksArray, index + 1,
                                 (chunkId :> contentChunksArray[index + 1]) @@ contentChunks,
                                 suffix + 1)
         IN  [rest EXCEPT !.chunkIds = <<chunkId>> \o rest.chunkIds]

\* The content saveArticles stores for a valid content (lines 989-995).
validContentOf(content) ==
  IF includesMarkup(content) THEN content ELSE wrapInParagraph(content)

\* serializeArticle that chunks content of exactly the chunk size too (>= for >).
serializeArticle_AtThreshold(article, contentChunks, suffix) ==
  IF article.content = <<>>
    THEN [article |-> [article EXCEPT !.content = LostNotice, !.contentChunkIds = <<>>],
          contentChunks |-> contentChunks, suffix |-> suffix]
  ELSE IF isBlank(article.content)
    THEN [article |-> [article EXCEPT !.content = EmptyNotice, !.contentChunkIds = <<>>],
          contentChunks |-> contentChunks, suffix |-> suffix]
  ELSE LET validContent == validContentOf(article.content)
       IN  IF Len(validContent) >= CONTENT_CHUNK_SIZE
             THEN LET stored == storeChunks(article.id, splitContentIntoChunks(validContent),
                                            0, contentChunks, suffix)
                  IN  [article |->
                         [article EXCEPT
                            !.contentChunkIds = stored.chunkIds,
                            !.content = substringTo(validContent, PREVIEW_LEN) \o PreviewTail],
                       contentChunks |-> stored.contentChunks,
                       suffix |-> stored.suffix]
             ELSE [article |-> [article EXCEPT !.content = validContent,
                                               !.contentChunkIds = <<>>],
                   contentChunks |-> contentChunks, suffix |-> suffix]

\* The map callback of saveArticles (lines 961-1027) for one article.
serializeArticle(article, contentChunks, suffix) ==
  IF article.content = <<>>
    THEN [article |-> [article EXCEPT !.content = LostNotice, !.contentChunkIds = <<>>],
          contentChunks |-> contentChunks, suffix |-> suffix]
  ELSE IF isBlank(article.content)
    THEN [article |-> [article EXCEPT !.content = EmptyNotice, !.contentChunkIds = <<>>],
          contentChunks |-> contentChunks, suffix |-> suffix]
  ELSE LET validContent == validContentOf(article.content)
       IN  IF Len(validContent) > CONTENT_CHUNK_SIZE
             THEN LET stored == storeChunks(article.id, splitContentIntoChunks(validContent),
                                            0, contentChunks, suffix)
                  IN  [article |->
                         [article EXCEPT
                            !.contentChunkIds = stored.chunkIds,
                            !.content = substringTo(validContent, PREVIEW_LEN) \o PreviewTail],
                       contentChunks |-> stored.contentChunks,
                       suffix |-> stored.suffix]
             ELSE [article |-> [article EXCEPT !.content = validContent,
                                               !.contentChunkIds = <<>>],
                   contentChunks |-> contentChunks, suffix |-> suffix]

\* articles.map(...) of saveArticles, in list order: the serialized list, the
\* chunk map carried forward and augmented, and the next fresh suffix.
RECURSIVE serializedArticles(_, _, _)
serializedArticles(articles, contentChunks, suffix) ==
  IF articles = <<>>
    THEN [articles |-> <<>>, contentChunks |-> contentChunks, suffix |-> suffix]
    ELSE LET first == serializeArticle(Head(articles), contentChunks, suffix)
             rest == serializedArticles(Tail(articles), first.contentChunks, first.suffix)
         IN  [rest EXCEPT !.articles = <<first.article>> \o rest.articles]

\* dataAfterSave that starts every save from an empty chunk map.
dataAfterSave_FreshMap(d, articles, suffix) ==
  LET s == serializedArticles(articles, <<>>, suffix)
  IN  [articles |-> ListOf(s.articles), chunks |-> ChunksOf(s.contentChunks)]

\* The data object after lines 1039-1048 of saveArticles(articles).
dataAfterSave(d, articles, suffix) ==
  LET s == serializedArticles(articles, loadedChunks(d), suffix)
  IN  [articles |-> ListOf(s.articles), chunks |-> ChunksOf(s.contentChunks)]

suffixAfterSave(d, articles, suffix) ==
  serializedArticles(articles, loadedChunks(d), suffix).suffix

\* What the host's file holds after this.plugin.saveData() (line 1051), which
\* hands the host no value to write: a blob with neither key.
blobAfterSaveData(d) == EmptyData

\* What the host's file holds after this.saveData(this.data) (main.ts:155).
blobAfterSaveSettings(d) == d

\* ------------------------------------------------------------------- state

\* data:       the plugin's in-memory data object (main.ts:42), the two keys
\*             the store uses
\* disk:       the blob the host holds in the plugin's data file
\* nextSuffix: the next token uuidv4 hands out
\* handed:     the list handed to the saveArticles call that wrote data.articles
\* last:       the operation that ran last, the arguments the properties
\*             below read, why it failed (cause) and the failure its caller
\*             received (error)
\* calls:      the calls of the store's operations that have not returned to
\*             their callers yet, each with the list its loadArticles gave it

NoArticle == Article("none", "none", "none", <<>>)

Outcome(op, article, id, status, cause, error) ==
  [op |-> op, article |-> article, id |-> id, status |-> status,
   cause |-> cause, error |-> error]

\* A record as saveArticles writes it for a short article with markup.
StoredRecord(id, url) ==
  [isNull |-> FALSE, id |-> id, url |-> url, status |-> "unread",
   content |-> <<"<", "a">>, contentChunkIds |-> <<>>]

\* What the host's data file may hold when the plugin starts: nothing, or an
\* article list with a null entry (first or later).
InitialBlobs ==
  { EmptyData,
    [articles |-> ListOf(<<NullRecord, StoredRecord("i2", "u2")>>), chunks |-> ChunksOf(<<>>)],
    [articles |-> ListOf(<<StoredRecord("i1", "u1"), NullRecord>>), chunks |-> ChunksOf(<<>>)] }

\* The article prop of the content hook when no article is handed to it.
UndefinedArticle ==
  [defined |-> FALSE, id |-> "undefined", url |-> "undefined", status |-> "undefined",
   content |-> <<>>]

\* No view is mounted: the article context and the content hook hold what
\* their useState calls start from (part_003:94-96, part_000:24,
\* useSelectionManager.ts:9).
NoView ==
  /\ providerArticles = <<>>
  /\ providerError = "null"
  /\ hookArticle = UndefinedArticle
  /\ hookContent = <<>>
  /\ selectedIds = {}
  /\ toast = <<>>
  /\ effectDue = FALSE

Init ==
  /\ data = EmptyData
  /\ disk \in InitialBlobs
  /\ nextSuffix = 0
  /\ handed = <<>>
  /\ last = Outcome("init", NoArticle, "none", "none", "none", "none")
  /\ calls = <<>>
  /\ NoView

\* -------------------------------------------------------------- operations

SaveFailed == "Failed to save articles to Obsidian storage"
AddFailed == "Failed to add article to Obsidian storage"
UpdateFailed == "Failed to update article in Obsidian storage"
DeleteFailed == "Failed to delete article from Obsidian storage"
StatusFailed == "Failed to update article status in Obsidian storage"

\* rethrown whose catch swallows the error.
rethrown_Swallowed(op) == "ok"

\* The failure a caller of `op` receives for an error thrown inside its try
\* block: every catch rethrows its own fixed Error (lines 1053-1056,
\* 1274-1277, 1318-1321, 1339-1342, 1362-1365).
rethrown(op) ==
  CASE op = "saveArticles" -> SaveFailed
    [] op = "addArticle" -> AddFailed
    [] op = "updateArticle" -> UpdateFailed
    [] op = "deleteArticle" -> DeleteFailed
    [] op = "updateArticleStatus" -> StatusFailed

\* The body of saveArticles(articles) (lines 931-1057): the data object gets
\* both keys, then the host write either succeeds or throws.  The call runs
\* alone, from its load to its write: no other call is in flight.
saveArticlesBody(articles, writeOk) ==
  /\ suffixAfterSave(data, articles, nextSuffix) <= MaxSuffix
  /\ data' = dataAfterSave(data, articles, nextSuffix)
  /\ nextSuffix' = suffixAfterSave(data, articles, nextSuffix)
  /\ handed' = articles
  /\ disk' = IF writeOk THEN blobAfterSaveData(data') ELSE disk
  /\ UNCHANGED calls

\* The operation threw before it reached saveArticles.
nothingSaved == UNCHANGED <<data, disk, nextSuffix, handed, calls>>

saveArticles(articles, writeOk) ==
  /\ saveArticlesBody(articles, writeOk)
  /\ last' = Outcome("saveArticles", NoArticle, "none", "none",
                     IF writeOk THEN "none" ELSE "write",
                     IF writeOk THEN "ok" ELSE rethrown("saveArticles"))

\* articles.findIndex(a => a.url === url) (line 1259), 0 for -1.
findIndexByUrl(articles, url) ==
  IF \E i \in 1..Len(articles) : articles[i].url = url
    THEN CHOOSE i \in 1..Len(articles) :
           /\ articles[i].url = url
           /\ \A j \in 1..(i - 1) : articles[j].url # url
    ELSE 0

\* findIndexById whose miss is taken for a position (the last one).
findIndexById_MissIsLast(articles, id) ==
  IF \E i \in 1..Len(articles) : articles[i].id = id
    THEN CHOOSE i \in 1..Len(articles) :
           /\ articles[i].id = id
           /\ \A j \in 1..(i - 1) : articles[j].id # id
    ELSE Len(articles)

\* articles.findIndex(a => a.id === id) (lines 1302, 1354), 0 for -1.
findIndexById(articles, id) ==
  IF \E i \in 1..Len(articles) : articles[i].id = id
    THEN CHOOSE i \in 1..Len(articles) :
           /\ articles[i].id = id
           /\ \A j \in 1..(i - 1) : articles[j].id # id
    ELSE 0

\* listAfterAdd that does not keep the existing record's id.
listAfterAdd_NewId(articles, article) ==
  LET existingIndex == findIndexByUrl(articles, article.url)
  IN  IF existingIndex > 0
        THEN [articles EXCEPT ![existingIndex] = article]
        ELSE Append(articles, article)

\* The list addArticle hands to saveArticles (lines 1256-1270).
listAfterAdd(articles, article) ==
  LET existingIndex == findIndexByUrl(articles, article.url)
  IN  IF existingIndex > 0
        THEN [articles EXCEPT ![existingIndex] =
                [article EXCEPT !.id = articles[existingIndex].id]]
        ELSE Append(articles, article)

addArticle(article, writeOk) ==
  LET articles == loadArticles(data, disk)
  IN  /\ Len(listAfterAdd(articles, article)) <= MaxArticles
      /\ saveArticlesBody(listAfterAdd(articles, article), writeOk)
      /\ last' = Outcome("addArticle", article, "none", "none",
                         IF writeOk THEN "none" ELSE "write",
                         IF writeOk THEN "ok" ELSE rethrown("addArticle"))

\* The content updateArticle writes (lines 1289-1299).
contentForUpdate(content) ==
  LET fallback == IF content = <<>> THEN UpdateNotice ELSE content
  IN  IF includesMarkup(fallback) THEN fallback ELSE wrapInParagraph(fallback)

\* The list updateArticle hands to saveArticles (lines 1306-1312).
listAfterUpdate(articles, updatedArticle) ==
  [articles EXCEPT ![findIndexById(articles, updatedArticle.id)] =
     [updatedArticle EXCEPT !.content = contentForUpdate(updatedArticle.content)]]

updateArticle(updatedArticle, writeOk) ==
  LET articles == loadArticles(data, disk)
  IN  IF findIndexById(articles, updatedArticle.id) > 0
        THEN /\ saveArticlesBody(listAfterUpdate(articles, updatedArticle), writeOk)
             /\ last' = Outcome("updateArticle", NoArticle, updatedArticle.id, "none",
                                IF writeOk THEN "none" ELSE "write",
                                IF writeOk THEN "ok" ELSE rethrown("updateArticle"))
        ELSE /\ nothingSaved
             /\ last' = Outcome("updateArticle", NoArticle, updatedArticle.id, "none",
                                "notfound", rethrown("updateArticle"))

\* filteredArticles that drops everything from the first match on.
filteredArticles_Truncating(articles, articleId) ==
  IF \E i \in 1..Len(articles) : articles[i].id = articleId
    THEN SubSeq(articles, 1,
                (CHOOSE i \in 1..Len(articles) :
                   /\ articles[i].id = articleId
                   /\ \A j \in 1..(i - 1) : articles[j].id # articleId) - 1)
    ELSE articles

\* articles.filter(article => article.id !== articleId) (line 1332).
filteredArticles(articles, articleId) ==
  SelectSeq(articles, LAMBDA article : article.id # articleId)

deleteArticle(articleId, writeOk) ==
  LET articles == loadArticles(data, disk)
  IN  IF Len(articles) # Len(filteredArticles(articles, articleId))
        THEN /\ saveArticlesBody(filteredArticles(articles, articleId), writeOk)
             /\ last' = Outcome("deleteArticle", NoArticle, articleId, "none",
                                IF writeOk THEN "none" ELSE "write",
                                IF writeOk THEN "ok" ELSE rethrown("deleteArticle"))
        ELSE /\ nothingSaved
             /\ last' = Outcome("deleteArticle", NoArticle, articleId, "none",
                                "notfound", rethrown("deleteArticle"))

\* listAfterStatus that sets the status of every article.
listAfterStatus_Every(articles, articleId, status) ==
  [i \in 1..Len(articles) |-> [articles[i] EXCEPT !.status = status]]

\* The list updateArticleStatus hands to saveArticles (lines 1354-1358).
listAfterStatus(articles, articleId, status) ==
  [articles EXCEPT ![findIndexById(articles, articleId)].status = status]

updateArticleStatus(articleId, status, writeOk) ==
  LET articles == loadArticles(data, disk)
  IN  IF findIndexById(articles, articleId) > 0
        THEN /\ saveArticlesBody(listAfterStatus(articles, articleId, status), writeOk)
             /\ last' = Outcome("updateArticleStatus", NoArticle, articleId, status,
                                IF writeOk THEN "none" ELSE "write",
                                IF writeOk THEN "ok" ELSE rethrown("updateArticleStatus"))
        ELSE /\ nothingSaved
             /\ last' = Outcome("updateArticleStatus", NoArticle, articleId, "none",
                                "notfound", rethrown("updateArticleStatus"))

\* saveSettings (main.ts:145-156): the host writes the whole data object.
saveSettings ==
  /\ disk' = blobAfterSaveSettings(data)
  /\ last' = Outcome("saveSettings", NoArticle, "none", "none", "none", "ok")
  /\ UNCHANGED <<data, nextSuffix, handed, calls>>

\* The plugin is loaded again (main.ts:42, 48-55, 120-139): a new data object
\* that holds the settings only.
onload ==
  /\ data' = EmptyData
  /\ handed' = <<>>
  /\ last' = Outcome("onload", NoArticle, "none", "none", "none", "ok")
  /\ UNCHANGED <<disk, nextSuffix, calls>>

\* The lists handed to saveArticles directly: the empty list and the
\* one-article lists (testContentChunking.ts:69).
SaveLists == {<<>>} \cup { <<article>> : article \in Articles }

\* One session of the plugin: the operations of the store.
Next ==
  \/ \E list \in SaveLists, writeOk \in BOOLEAN :
       saveArticles(list, writeOk) /\ UNCHANGED <<contextVars, hookVars>>
  \/ \E a \in Articles, writeOk \in BOOLEAN :
       addArticle(a, writeOk) /\ UNCHANGED <<contextVars, hookVars>>
  \/ \E a \in Articles, writeOk \in BOOLEAN :
       updateArticle(a, writeOk) /\ UNCHANGED <<contextVars, hookVars>>
  \/ \E id \in Ids, writeOk \in BOOLEAN :
       deleteArticle(id, writeOk) /\ UNCHANGED <<contextVars, hookVars>>
  \/ \E id \in Ids, status \in Statuses, writeOk \in BOOLEAN :
       updateArticleStatus(id, status, writeOk) /\ UNCHANGED <<contextVars, hookVars>>

Spec == Init /\ [][Next]_vars

\* Saves of every kind of content, each followed by what loadArticles returns.
RoundTripLists == UNION { [1..n -> RoundTripArticles] : n \in 0..MaxArticles }

NextRoundTrip ==
  \E list \in RoundTripLists, writeOk \in BOOLEAN :
    saveArticles(list, writeOk) /\ UNCHANGED <<contextVars, hookVars>>

SpecRoundTrip == Init /\ [][NextRoundTrip]_vars

\* The plugin across restarts: the store's operations, the settings save that
\* writes the data object to the host, and the plugin being loaded again.
LifecycleArticles ==
  { Article("i1", "u1", "unread", <<"<", "a", "b", "a">>),
    Article("i2", "u2", "unread", <<"a">>) }

InitLifecycle ==
  /\ data = EmptyData
  /\ disk = EmptyData
  /\ nextSuffix = 0
  /\ handed = <<>>
  /\ last = Outcome("init", NoArticle, "none", "none", "none", "none")
  /\ calls = <<>>
  /\ NoView

NextLifecycle ==
  \/ \E a \in LifecycleArticles, writeOk \in BOOLEAN :
       addArticle(a, writeOk) /\ UNCHANGED <<contextVars, hookVars>>
  \/ \E id \in Ids, writeOk \in BOOLEAN :
       deleteArticle(id, writeOk) /\ UNCHANGED <<contextVars, hookVars>>
  \/ \E id \in Ids, status \in Statuses, writeOk \in BOOLEAN :
       updateArticleStatus(id, status, writeOk) /\ UNCHANGED <<contextVars, hookVars>>
  \/ saveSettings /\ UNCHANGED <<contextVars, hookVars>>
  \/ onload /\ UNCHANGED <<contextVars, hookVars>>

SpecLifecycle == InitLifecycle /\ [][NextLifecycle]_vars

\* ------------------------------------------------------------ ContentCodec

\* The nodes of a parsed HTML string: elements, text nodes and comments, each
\* with its child nodes and, for an image, its src and alt attributes.
Element(nodeName, childNodes) ==
  [nodeType |-> "element", nodeName |-> nodeName, childNodes |-> childNodes,
   data |-> "", src |-> "", alt |-> ""]

Text(chars) ==
  [nodeType |-> "text", nodeName |-> "#text", childNodes |-> <<>>,
   data |-> chars, src |-> "", alt |-> ""]

CommentNode ==
  [nodeType |-> "comment", nodeName |-> "#comment", childNodes |-> <<>>,
   data |-> "note", src |-> "", alt |-> ""]

Image(src, alt) ==
  [nodeType |-> "element", nodeName |-> "img", childNodes |-> <<>>,
   data |-> "", src |-> src, alt |-> alt]

\* htmlContent.trim() === '' (the empty string included)
isBlankHtml(html) ==
  \A i \in 1..Len(html) : html[i].nodeType = "text" /\ html[i].data = " "

\* htmlContent.includes('<')
includesTag(html) == \E i \in 1..Len(html) : html[i].nodeType # "text"

\* tempDiv.children: the element nodes among the child nodes.
children(childNodes) == SelectSeq(childNodes, LAMBDA node : node.nodeType = "element")

\* (node as HTMLImageElement).src: the attribute resolved against the document.
resolvedSrc(src) ==
  IF src = "x.png" THEN "app://obsidian.md/x.png" ELSE src

\* parseInt(nodeName.substring(1))
headingLevel(nodeName) ==
  CASE nodeName = "h1" -> 1 [] nodeName = "h2" -> 2 [] nodeName = "h3" -> 3
    [] nodeName = "h4" -> 4 [] nodeName = "h5" -> 5 [] nodeName = "h6" -> 6

\* `h${el.level || 1}`
headingName(level) ==
  CASE level = 2 -> "h2" [] level = 3 -> "h3" [] level = 4 -> "h4"
    [] level = 5 -> "h5" [] level = 6 -> "h6" [] OTHER -> "h1"

\* A ParsedContentElement (contentUtils.ts:6-14).  An id is the pair of its
\* prefix and its counter; an absent level is 0, an absent src or alt is
\* "undefined", an absent isHighlighted is FALSE.
ParsedContentElement(id, type, html, level, src, alt) ==
  [id |-> id, type |-> type, content |-> html, level |-> level, src |-> src,
   alt |-> alt, isHighlighted |-> FALSE]

Paragraph(id, html) == ParsedContentElement(id, "paragraph", html, 0, "undefined", "undefined")

\* The fixed single-element answers of parseArticleContent (lines 26-30,
\* 43-47).
EmptyContent ==
  <<Paragraph(<<"empty-content">>, <<Text("No content available for this article.")>>)>>
EmptyParsedContent ==
  <<Paragraph(<<"empty-parsed-content">>, <<Text("Content could not be parsed properly.")>>)>>

\* The switch of lines 61-126 on a node that is not skipped.
elementOf(node, id) ==
  LET nodeName == node.nodeName
  IN  CASE nodeName = "p" -> Paragraph(<<"p", id>>, node.childNodes)
        [] nodeName \in {"h1", "h2", "h3", "h4", "h5", "h6"} ->
             ParsedContentElement(<<nodeName, id>>, "heading", node.childNodes,
                                  headingLevel(nodeName), "undefined", "undefined")
        [] nodeName = "img" ->
             ParsedContentElement(<<"img", id>>, "image", <<>>, 0,
                                  resolvedSrc(node.src), node.alt)
        [] nodeName \in {"ul", "ol"} ->
             ParsedContentElement(<<"list", id>>, "list", <<node>>, 0,
                                  "undefined", "undefined")
        [] nodeName = "pre" ->
             ParsedContentElement(<<"code", id>>, "code", node.childNodes, 0,
                                  "undefined", "undefined")
        [] nodeName = "blockquote" ->
             ParsedContentElement(<<"blockquote", id>>, "blockquote", node.childNodes, 0,
                                  "undefined", "undefined")
        [] OTHER -> Paragraph(<<"element", id>>, <<node>>)

\* parseChildren that never advances the counter (id for id++).
RECURSIVE parseChildren_SameCounter(_, _)
parseChildren_SameCounter(nodes, id) ==
  IF nodes = <<>>
    THEN <<>>
    ELSE IF \/ Head(nodes).nodeType = "comment"
            \/ Head(nodes).nodeName \in {"script", "style"}
           THEN parseChildren_SameCounter(Tail(nodes), id)
           ELSE <<elementOf(Head(nodes), id)>> \o parseChildren_SameCounter(Tail(nodes), id)

\* The forEach of lines 51-127 over the children from `nodes` on, the counter
\* at `id`: comments, scripts and styles add nothing.
RECURSIVE parseChildren(_, _)
parseChildren(nodes, id) ==
  IF nodes = <<>>
    THEN <<>>
    ELSE IF \/ Head(nodes).nodeType = "comment"
            \/ Head(nodes).nodeName \in {"script", "style"}
           THEN parseChildren(Tail(nodes), id)
           ELSE <<elementOf(Head(nodes), id)>> \o parseChildren(Tail(nodes), id + 1)

\* parseArticleContent (lines 22-139).
parseArticleContent(htmlContent) ==
  IF isBlankHtml(htmlContent) THEN EmptyContent
  ELSE IF Len(children(htmlContent)) = 0 THEN EmptyParsedContent
  ELSE parseChildren(children(htmlContent), 0)

\* The node generateHtmlFromContent appends for one element (lines 149-186).
nodeOf(el) ==
  CASE el.type = "heading" -> Element(headingName(el.level), el.content)
    [] el.type = "paragraph" -> Element("p", el.content)
    [] el.type = "image" ->
         Image(IF el.src \in {"", "undefined"} THEN "" ELSE el.src,
               IF el.alt \in {"", "undefined"} THEN "" ELSE el.alt)
    [] el.type = "list" ->
         IF el.content # <<>> THEN Head(el.content) ELSE Element("div", <<>>)
    [] el.type = "blockquote" -> Element("blockquote", el.content)
    [] el.type = "code" ->
         IF el.content # <<>> THEN Head(el.content) ELSE Element("pre", <<>>)
    [] OTHER -> Element("div", el.content)

\* generateHtmlFromContent (lines 146-189): tempDiv.innerHTML.
generateHtmlFromContent(contentElements) ==
  [i \in 1..Len(contentElements) |-> nodeOf(contentElements[i])]

\* The characters of an HTML string as the store counts them: a text node is
\* its text, a tag or a comment is markup around the characters of the child
\* nodes.
RECURSIVE charactersOf(_)
charactersOf(html) ==
  IF html = <<>>
    THEN <<>>
    ELSE LET node == Head(html)
         IN  (IF node.nodeType = "text"
                THEN <<node.data>>
                ELSE <<"<">> \o charactersOf(node.childNodes))
             \o charactersOf(Tail(html))

\* ---------------------------------------------------------- ArticleProvider

\* loadArticlesRead whose host read never throws.
loadArticlesRead_NoFault(d, k, readOk) == loadArticles(d, k)

\* loadArticles with the outcome of the host's read: loadData (line 1077) is
\* called when the data object has no article key, and when it throws the
\* catch of lines 1146-1149 returns the empty list.
loadArticlesRead(d, k, readOk) ==
  IF d.articles.kind = "absent" /\ ~readOk THEN <<>> ELSE loadArticles(d, k)

\* The error the article context sets in the catch of each operation
\* (part_003:148, 162, 176, 190).
contextError(op) ==
  CASE op = "addArticle" -> "Failed to add article"
    [] op = "updateArticle" -> "Failed to update article"
    [] op = "deleteArticle" -> "Failed to delete article"
    [] op = "updateArticleStatus" -> "Failed to update article status"

\* refreshArticles (part_003:106-128), called by the context itself on mount
\* (99-101) and by its consumers.
refreshArticles(readOk) ==
  /\ providerArticles' = loadArticlesRead(data, disk, readOk)
  /\ providerError' = "null"
  /\ last' = Outcome("loadArticles", NoArticle, "none", "none",
                     IF data.articles.kind = "absent" /\ ~readOk THEN "read" ELSE "none",
                     "ok")
  /\ UNCHANGED <<data, disk, nextSuffix, handed, calls>>

\* What follows the store's operation in updateArticle, deleteArticle and
\* updateArticleStatus of the context (part_003:157-194): refreshArticles
\* when the store's operation completed, else the catch, which sets the error
\* and throws the store's failure on.
refreshedOrFailed(op) ==
  IF last'.error = "ok"
    THEN /\ providerArticles' = loadArticles(data', disk')
         /\ providerError' = "null"
    ELSE /\ providerError' = contextError(op)
         /\ UNCHANGED providerArticles

\* The list the context displays when its addArticle failed (part_003:138,
\* 147-151).
articlesAfterFailedAdd(prevArticles, a) == Append(prevArticles, a)

\* addArticle of the context (part_003:133-152).
ArticleProvider_addArticle(a, writeOk) ==
  /\ writeOk \/ Len(providerArticles) < MaxArticles
  /\ addArticle(a, writeOk)
  /\ IF last'.error = "ok"
       THEN /\ providerArticles' = loadArticles(data', disk')
            /\ providerError' = "null"
       ELSE /\ providerArticles' = articlesAfterFailedAdd(providerArticles, a)
            /\ providerError' = contextError("addArticle")

\* updateArticle of the context (part_003:157-166).
ArticleProvider_updateArticle(a, writeOk) ==
  /\ updateArticle(a, writeOk)
  /\ refreshedOrFailed("updateArticle")

\* deleteArticle of the context (part_003:171-180).
ArticleProvider_deleteArticle(articleId, writeOk) ==
  /\ deleteArticle(articleId, writeOk)
  /\ refreshedOrFailed("deleteArticle")

\* updateArticleStatus of the context (part_003:185-194).
ArticleProvider_updateArticleStatus(articleId, status, writeOk) ==
  /\ updateArticleStatus(articleId, status, writeOk)
  /\ refreshedOrFailed("updateArticleStatus")

\* The plugin is loaded again and its view with it: a new article context.
reload ==
  /\ onload
  /\ providerArticles' = <<>>
  /\ providerError' = "null"

\* The article context over the store, across restarts.
NextProvider ==
  \/ \E readOk \in BOOLEAN : refreshArticles(readOk) /\ UNCHANGED hookVars
  \/ \E a \in LifecycleArticles, writeOk \in BOOLEAN :
       ArticleProvider_addArticle(a, writeOk) /\ UNCHANGED hookVars
  \/ \E id \in Ids, writeOk \in BOOLEAN :
       ArticleProvider_deleteArticle(id, writeOk) /\ UNCHANGED hookVars
  \/ \E id \in Ids, status \in Statuses, writeOk \in BOOLEAN :
       ArticleProvider_updateArticleStatus(id, status, writeOk) /\ UNCHANGED hookVars
  \/ saveSettings /\ UNCHANGED <<contextVars, hookVars>>
  \/ reload /\ UNCHANGED hookVars

SpecProvider == InitLifecycle /\ [][NextProvider]_vars

\* -------------------------------------------------------- useArticleContent

\* The article prop of the hook: an article whose content is an HTML string.
HookArticle(id, url, status, html) ==
  [defined |-> TRUE, id |-> id, url |-> url, status |-> status, content |-> html]

\* { ...article, content: htmlContent } as the store receives it.
articleWithContent(a, html) == Article(a.id, a.url, a.status, charactersOf(html))

\* The fixed contents of the effect (part_000:32-36, 59, 65).
NoArticleContent ==
  <<Paragraph(<<"no-article">>,
              <<Text("No article selected. Please select an article to view.")>>)>>
MissingHtml ==
  <<Element("p", <<Text("No content available for this article. The content may be missing or corrupted.")>>)>>
EmptyHtml ==
  <<Element("p", <<Text("This article appears to be empty. Please try refreshing or selecting another article.")>>)>>

\* htmlContent of the effect (part_000:55-74).
htmlContentOf(a) ==
  IF a.content = <<>> THEN MissingHtml
  ELSE IF isBlankHtml(a.content) THEN EmptyHtml
  ELSE IF includesTag(a.content) THEN a.content
  ELSE <<Element("p", a.content)>>

\* parsedContent[0].content.includes('No content available') (part_000:89)
includesNoContentNotice(html) ==
  \E i \in 1..Len(html) :
    /\ html[i].nodeType = "text"
    /\ html[i].data \in {EmptyContent[1].content[1].data,
                         MissingHtml[1].childNodes[1].data}

\* The effect repairs the article (part_000:89-98).
repairs(a) ==
  LET parsedContent == parseArticleContent(htmlContentOf(a))
  IN  /\ Len(parsedContent) = 1
      /\ includesNoContentNotice(parsedContent[1].content)
      /\ a.content # htmlContentOf(a)

\* The article context rendered anew in this step, which hands the hook a new
\* updateArticle (part_003:157, 197-206), a dependency of the effect
\* (part_000:118): its state changed, through refreshArticles or through a
\* new error.
rendered == last'.error = "ok" \/ providerError' # providerError

\* The effect of part_000:27-118.
parseEffect(writeOk) ==
  /\ effectDue
  /\ hookContent' = IF hookArticle.defined
                      THEN parseArticleContent(htmlContentOf(hookArticle))
                      ELSE NoArticleContent
  /\ IF hookArticle.defined /\ repairs(hookArticle)
       THEN /\ ArticleProvider_updateArticle(
                 articleWithContent(hookArticle, htmlContentOf(hookArticle)), writeOk)
            /\ effectDue' = rendered
       ELSE /\ effectDue' = FALSE
            /\ UNCHANGED <<storeVars, contextVars>>
  /\ toast' = <<>>
  /\ UNCHANGED <<hookArticle, selectedIds>>

\* The ids of the elements the hook shows.
shownIds == { hookContent[i].id : i \in 1..Len(hookContent) }

\* toggleSelection (useSelectionManager.ts:18-28).
toggled(ids, id) == IF id \in ids THEN ids \ {id} ELSE ids \cup {id}

\* toggleHighlight (part_000:131-159).
toggleHighlight(id) ==
  /\ hookContent' = [i \in 1..Len(hookContent) |->
                       IF hookContent[i].id = id
                         THEN [hookContent[i] EXCEPT !.isHighlighted = ~@]
                         ELSE hookContent[i]]
  /\ toast' = IF \E i \in 1..Len(hookContent) :
                   hookContent[i].id = id /\ ~hookContent[i].isHighlighted
                THEN <<"Element highlighted">>
                ELSE <<"Highlight removed">>
  /\ selectedIds' = toggled(selectedIds, id)
  /\ UNCHANGED <<storeVars, contextVars, hookArticle, effectDue>>

\* copyElementContent (part_000:162-180).
copyElementContent(id, clipboardOk) ==
  /\ toast' = IF clipboardOk THEN <<"Content copied">> ELSE <<"Copy failed">>
  /\ UNCHANGED <<storeVars, contextVars, hookArticle, hookContent, selectedIds, effectDue>>

\* saveContentToArticle (contentUtils.ts:197-208) from a handler of the hook,
\* and what the handler does around it: with an article, the updated content
\* is shown and saved, and the toast tells the outcome; without one, the
\* original content is shown again (part_000:197-224, 243-270, 290-317).
shownAndSaved(updatedContent, writeOk, done, failed) ==
  IF hookArticle.defined
    THEN /\ ArticleProvider_updateArticle(
              articleWithContent(hookArticle, generateHtmlFromContent(updatedContent)),
              writeOk)
         /\ hookContent' = updatedContent
         /\ toast' = IF last'.error = "ok" THEN <<done>> ELSE <<failed>>
         /\ effectDue' = (effectDue \/ rendered)
    ELSE /\ hookContent' = hookContent
         /\ toast' = <<"Save failed", done>>
         /\ UNCHANGED <<storeVars, contextVars, effectDue>>

\* content.filter(el => el.id !== id) (part_000:189)
contentAfterDelete(elements, id) == SelectSeq(elements, LAMBDA el : el.id # id)

\* deleteElement (part_000:183-225).
deleteElement(id, writeOk) ==
  /\ selectedIds' = IF id \in selectedIds THEN toggled(selectedIds, id) ELSE selectedIds
  /\ shownAndSaved(contentAfterDelete(hookContent, id), writeOk,
                   "Element removed", "Delete failed")
  /\ UNCHANGED hookArticle

\* content.filter(el => !selectedIds.has(el.id)) (part_000:237)
contentAfterDeleteSelected(elements, ids) ==
  SelectSeq(elements, LAMBDA el : el.id \notin ids)

\* deleteSelectedElements (part_000:228-271).
deleteSelectedElements(writeOk) ==
  /\ selectedIds # {}
  /\ selectedIds' = {}
  /\ shownAndSaved(contentAfterDeleteSelected(hookContent, selectedIds), writeOk,
                   "Elements removed", "Delete failed")
  /\ UNCHANGED hookArticle

\* content.map(el => ({ ...el, isHighlighted: false })) (part_000:282-285)
contentAfterClear(elements) ==
  [i \in 1..Len(elements) |-> [elements[i] EXCEPT !.isHighlighted = FALSE]]

\* clearHighlights (part_000:274-318).
clearHighlights(writeOk) ==
  /\ selectedIds # {}
  /\ selectedIds' = {}
  /\ shownAndSaved(contentAfterClear(hookContent), writeOk,
                   "Selection cleared", "Clear failed")
  /\ UNCHANGED hookArticle

\* The nodes of the articles the hook is handed.
ParagraphNode == Element("p", <<Text("a")>>)
HeadingNode == Element("h2", <<Text("b")>>)
ImageNode == Image("x.png", "y")
ListNode == Element("ul", <<Element("li", <<Text("a")>>)>>)
CodeNode == Element("pre", <<Element("code", <<Text("a")>>)>>)
PlainCodeNode == Element("pre", <<Text("a")>>)
QuoteNode == Element("blockquote", <<Text("b")>>)
ScriptNode == Element("script", <<Text("a")>>)
StyleNode == Element("style", <<Text("a")>>)

\* The articles of the editing sessions: three images (short enough to be
\* stored inline), a paragraph, a heading and a paragraph (stored in chunks),
\* text without markup, the empty string and a lone script.
EditorContents ==
  { <<ImageNode, Image("", "y"), Image("x.png", "")>>,
    <<ParagraphNode, HeadingNode, ParagraphNode>>,
    <<Text("a")>>,
    <<>>,
    <<ScriptNode>> }

EditorArticles == { HookArticle("i1", "u1", "unread", html) : html \in EditorContents }

\* An editing session starts with the hook mounted on an article of the
\* store, on an article the store does not hold, or on no article, the
\* article context showing what the store holds.
InitEditor ==
  /\ hookArticle \in EditorArticles \cup {UndefinedArticle}
  /\ \E isStored \in BOOLEAN :
       LET list == IF hookArticle.defined /\ isStored
                     THEN <<articleWithContent(hookArticle, hookArticle.content)>>
                     ELSE <<>>
       IN  /\ data = IF list = <<>> THEN EmptyData ELSE dataAfterSave(EmptyData, list, 0)
           /\ nextSuffix = suffixAfterSave(EmptyData, list, 0)
           /\ handed = list
  /\ disk = EmptyData
  /\ last = Outcome("init", NoArticle, "none", "none", "none", "none")
  /\ calls = <<>>
  /\ providerArticles = loadArticles(data, disk)
  /\ providerError = "null"
  /\ hookContent = <<>>
  /\ selectedIds = {}
  /\ toast = <<>>
  /\ effectDue = TRUE

NextEditor ==
  \/ \E writeOk \in BOOLEAN : parseEffect(writeOk)
  \/ \E id \in shownIds : toggleHighlight(id)
  \/ \E id \in shownIds, clipboardOk \in BOOLEAN : copyElementContent(id, clipboardOk)
  \/ \E id \in shownIds, writeOk \in BOOLEAN : deleteElement(id, writeOk)
  \/ \E writeOk \in BOOLEAN : deleteSelectedElements(writeOk)
  \/ \E writeOk \in BOOLEAN : clearHighlights(writeOk)

SpecEditor == InitEditor /\ [][NextEditor]_vars

\* The codec on markup of every kind: every HTML string of up to two of these
\* nodes is handed to the hook, whose effect decodes it.
CodecNodes ==
  { ParagraphNode, HeadingNode, ImageNode, ListNode, CodeNode, PlainCodeNode,
    QuoteNode, ScriptNode, StyleNode, CommentNode, Text(" ") }

MaxNodes == 2

CodecContents == UNION { [1..n -> CodecNodes] : n \in 0..MaxNodes }

InitCodec ==
  /\ hookArticle \in { HookArticle("i1", "u1", "unread", html) : html \in CodecContents }
  /\ data = EmptyData
  /\ disk = EmptyData
  /\ nextSuffix = 0
  /\ handed = <<>>
  /\ last = Outcome("init", NoArticle, "none", "none", "none", "none")
  /\ calls = <<>>
  /\ providerArticles = <<>>
  /\ providerError = "null"
  /\ hookContent = <<>>
  /\ selectedIds = {}
  /\ toast = <<>>
  /\ effectDue = TRUE

NextCodec == \E writeOk \in BOOLEAN : parseEffect(writeOk)

SpecCodec == InitCodec /\ [][NextCodec]_vars

\* ------------------------------------------------------------ reassembly

\* A chunk map without the chunks of the ids in `gone`.
withoutChunks(contentChunks, gone) ==
  [chunkId \in DOMAIN contentChunks \ gone |-> contentChunks[chunkId]]

\* The articles whose records processArticleData is handed: content with
\* markup at both ends that fills three chunks, the middle one without
\* markup, and content that fills two chunks.
ChunkedArticles ==
  { Article("i1", "u1", "unread", <<"<p>", "a", "b", "a", "b", "a", "b", "</p>">>),
    Article("i2", "u2", "unread", <<"<", "a", "b", "a">>) }

ChunkedLists ==
  { <<a>> : a \in ChunkedArticles } \cup { <<a, b>> : a, b \in ChunkedArticles }

\* processArticleData on the records a save wrote and on a chunk map that
\* misses some of their chunks.
InitReassembly ==
  /\ handed \in ChunkedLists
  /\ \E gone \in SUBSET DOMAIN dataAfterSave(EmptyData, handed, 0).chunks.map :
       data = [dataAfterSave(EmptyData, handed, 0) EXCEPT
                 !.chunks = ChunksOf(withoutChunks(@.map, gone))]
  /\ nextSuffix = suffixAfterSave(EmptyData, handed, 0)
  /\ disk = EmptyData
  /\ last = Outcome("init", NoArticle, "none", "none", "none", "none")
  /\ calls = <<>>
  /\ NoView

NextReassembly ==
  \E readOk \in BOOLEAN : refreshArticles(readOk) /\ UNCHANGED hookVars

SpecReassembly == InitReassembly /\ [][NextReassembly]_vars

\* ------------------------------------------------- the reader view's parser

\* tempDiv.querySelector(name) over the nodes in document order: the first
\* element of that name, at any depth, as a sequence of at most one node.
RECURSIVE querySelector(_, _)
querySelector(nodes, name) ==
  IF nodes = <<>>
    THEN <<>>
    ELSE IF Head(nodes).nodeType = "element" /\ Head(nodes).nodeName = name
           THEN <<Head(nodes)>>
           ELSE LET inside == querySelector(Head(nodes).childNodes, name)
                IN  IF inside # <<>> THEN inside ELSE querySelector(Tail(nodes), name)

\* node.textContent: the text nodes under the nodes, in document order.
RECURSIVE textContent(_)
textContent(nodes) ==
  IF nodes = <<>>
    THEN <<>>
    ELSE (CASE Head(nodes).nodeType = "text" -> <<Head(nodes)>>
            [] Head(nodes).nodeType = "comment" -> <<>>
            [] OTHER -> textContent(Head(nodes).childNodes))
         \o textContent(Tail(nodes))

\* The tags the switch of processNode has a case for (ReaderView.tsx:185-236).
ViewTags ==
  {"p", "h1", "h2", "h3", "h4", "h5", "h6", "img", "ul", "ol", "blockquote", "pre", "code"}

\* The element a case of that switch pushes (ReaderView.tsx:185-242).
viewElementOf(node, id) ==
  LET nodeName == node.nodeName
  IN  CASE nodeName = "p" -> Paragraph(<<"p", id>>, node.childNodes)
        [] nodeName \in {"h1", "h2", "h3", "h4", "h5", "h6"} ->
             ParsedContentElement(<<nodeName, id>>, "heading", node.childNodes,
                                  headingLevel(nodeName), "undefined", "undefined")
        [] nodeName = "img" ->
             ParsedContentElement(<<"img", id>>, "image", <<>>, 0,
                                  resolvedSrc(node.src), node.alt)
        [] nodeName \in {"ul", "ol"} ->
             ParsedContentElement(<<"list", id>>, "list", <<node>>, 0,
                                  "undefined", "undefined")
        [] nodeName = "blockquote" ->
             ParsedContentElement(<<"blockquote", id>>, "blockquote", node.childNodes, 0,
                                  "undefined", "undefined")
        [] nodeName \in {"pre", "code"} ->
             ParsedContentElement(<<"code", id>>, "code", <<node>>, 0,
                                  "undefined", "undefined")

\* processNode (ReaderView.tsx:173-259) on one node and, in order, on a
\* sequence of nodes, the counter at `id`: the elements pushed.  A node without
\* a case gives the elements of its child elements when it has some, else a
\* paragraph of its text when that is not blank, else nothing.
RECURSIVE processNode(_, _)
RECURSIVE processNodes(_, _)
processNode(node, id) ==
  IF node.nodeType = "comment" \/ node.nodeName \in {"script", "style"}
    THEN <<>>
  ELSE IF node.nodeName \in ViewTags
    THEN <<viewElementOf(node, id)>>
  ELSE IF Len(children(node.childNodes)) > 0
    THEN processNodes(children(node.childNodes), id)
  ELSE IF ~isBlankHtml(textContent(node.childNodes))
    THEN <<Paragraph(<<"text", id>>, textContent(node.childNodes))>>
  ELSE <<>>

processNodes(nodes, id) ==
  IF nodes = <<>>
    THEN <<>>
    ELSE LET first == processNode(Head(nodes), id)
         IN  first \o processNodes(Tail(nodes), id + Len(first))

\* The child nodes of mainContent (ReaderView.tsx:263-266); no node of the
\* model carries a class, so querySelector('.content') finds nothing.
mainContent(html) ==
  IF querySelector(html, "article") # <<>> THEN querySelector(html, "article")[1].childNodes
  ELSE IF querySelector(html, "main") # <<>> THEN querySelector(html, "main")[1].childNodes
  ELSE html

\* parseContent of the reader view's own useArticleContent
\* (ReaderView.tsx:164-274).
parseContent(html) == processNodes(children(mainContent(html)), 0)

\* The effect of ReaderView.tsx:277-279, with the content the hook shows
\* standing for parsedContent.
viewParseEffect ==
  /\ effectDue
  /\ hookArticle.defined
  /\ hookContent' = parseContent(hookArticle.content)
  /\ effectDue' = FALSE
  /\ toast' = <<>>
  /\ UNCHANGED <<storeVars, contextVars, hookArticle, selectedIds>>

\* Nodes the parsers have no case for: with child elements, with text only,
\* with nothing inside, nested in one another, and the containers the reader
\* view looks for.
DivNode == Element("div", <<ParagraphNode, HeadingNode>>)
SpanNode == Element("span", <<Text("a")>>)
RuleNode == Element("hr", <<>>)
SectionNode == Element("section", <<Element("div", <<HeadingNode>>), SpanNode>>)
ArticleNode == Element("article", <<ParagraphNode>>)
MainNode == Element("main", <<RuleNode, ParagraphNode>>)

ContainerNodes ==
  { ParagraphNode, HeadingNode, DivNode, SpanNode, RuleNode, SectionNode,
    ArticleNode, MainNode }

ContainerContents == UNION { [1..n -> ContainerNodes] : n \in 0..MaxNodes }

\* Either hook is mounted on an article whose markup holds such nodes.
InitContainers ==
  /\ hookArticle \in { HookArticle("i1", "u1", "unread", html) : html \in ContainerContents }
  /\ data = EmptyData
  /\ disk = EmptyData
  /\ nextSuffix = 0
  /\ handed = <<>>
  /\ last = Outcome("init", NoArticle, "none", "none", "none", "none")
  /\ calls = <<>>
  /\ providerArticles = <<>>
  /\ providerError = "null"
  /\ hookContent = <<>>
  /\ selectedIds = {}
  /\ toast = <<>>
  /\ effectDue = TRUE

NextContainers ==
  \/ \E writeOk \in BOOLEAN : parseEffect(writeOk)
  \/ viewParseEffect

SpecContainers == InitContainers /\ [][NextContainers]_vars

\* -------------------------------------------------------- updates of content

\* The articles updateArticle is called with: one stored article, with every
\* kind of content of the round trip.
UpdateArticles == RoundTripArticles

InitUpdate ==
  /\ data = EmptyData
  /\ disk = EmptyData
  /\ nextSuffix = 0
  /\ handed = <<>>
  /\ last = Outcome("init", NoArticle, "none", "none", "none", "none")
  /\ calls = <<>>
  /\ NoView

NextUpdate ==
  \/ \E a \in LifecycleArticles, writeOk \in BOOLEAN :
       addArticle(a, writeOk) /\ UNCHANGED <<contextVars, hookVars>>
  \/ \E a \in UpdateArticles, writeOk \in BOOLEAN :
       updateArticle(a, writeOk) /\ UNCHANGED <<contextVars, hookVars>>

SpecUpdate == InitUpdate /\ [][NextUpdate]_vars

\* ------------------------------------------- article key that holds no list

\* A value under the article key that is neither a list nor a map (a number,
\* a string, true).
Scalar == [kind |-> "scalar", items |-> <<>>]

\* What the host's data file may hold under the article key when it was not
\* written as a list: a map of records (empty, of one, of two, with a null
\* value first or later), a scalar; and a list, for comparison.
ShapedBlobs ==
  { [articles |-> shape, chunks |-> NoChunks] :
      shape \in { MapOf(<<>>),
                  MapOf(<<StoredRecord("i1", "u1")>>),
                  MapOf(<<StoredRecord("i1", "u1"), StoredRecord("i2", "u2")>>),
                  MapOf(<<NullRecord, StoredRecord("i2", "u2")>>),
                  MapOf(<<StoredRecord("i1", "u1"), NullRecord>>),
                  Scalar,
                  ListOf(<<StoredRecord("i1", "u1"), StoredRecord("i2", "u2")>>) } }

InitRecovery ==
  /\ data = EmptyData
  /\ disk \in ShapedBlobs
  /\ nextSuffix = 0
  /\ handed = <<>>
  /\ last = Outcome("init", NoArticle, "none", "none", "none", "none")
  /\ calls = <<>>
  /\ NoView

\* The article context and the store over such a file.
NextRecovery ==
  \/ \E readOk \in BOOLEAN : refreshArticles(readOk) /\ UNCHANGED hookVars
  \/ \E a \in LifecycleArticles, writeOk \in BOOLEAN :
       ArticleProvider_addArticle(a, writeOk) /\ UNCHANGED hookVars
  \/ \E id \in Ids, writeOk \in BOOLEAN :
       ArticleProvider_deleteArticle(id, writeOk) /\ UNCHANGED hookVars

SpecRecovery == InitRecovery /\ [][NextRecovery]_vars

\* ------------------------------------------- operations that overlap in time

\* Number of calls of the store's operations in flight at a time.
MaxCalls == 2

\* A call of a mutating operation: its arguments, where it stands (reading the
\* host's file, loaded, writing to the host, done), where its loadArticles
\* took the list from (the data object or the host's file), the list it
\* returned and the failure the caller received.
Call(op, article, id, status) ==
  [op |-> op, article |-> article, id |-> id, status |-> status,
   pc |-> "called", from |-> "none", articles |-> <<>>, error |-> "none"]

\* The articles and the calls of the overlapping sessions.
RaceArticles ==
  { Article("i1", "u1", "unread", <<"<", "a">>),
    Article("i2", "u2", "unread", <<"a">>) }

RaceCalls ==
  { Call("addArticle", a, "none", "none") : a \in RaceArticles }
    \cup { Call("updateArticleStatus", NoArticle, id, "read") : id \in Ids }

\* loadArticles when the data object had no article key at line 1070: the
\* list comes from the host's file (lines 1077-1084), whatever the data
\* object holds by the time the read returns.
loadArticlesFromHost(d, k) == loadArticles([d EXCEPT !.articles = Absent], k)

\* An operation is called (lines 1256, 1353): its loadArticles runs up to its
\* first await, which is the host's read when the data object has no article
\* key, and else the return of the list read from the data object.
called(c) ==
  /\ Len(calls) < MaxCalls
  /\ calls' = Append(calls,
                     IF data.articles.kind = "absent"
                       THEN [c EXCEPT !.pc = "reading", !.from = "host"]
                       ELSE [c EXCEPT !.pc = "loaded", !.from = "data",
                                      !.articles = loadArticles(data, disk)])
  /\ UNCHANGED <<data, disk, nextSuffix, handed, last>>

\* The host's read of call i returns (line 1077).
readDone(i) ==
  /\ calls[i].pc = "reading"
  /\ calls' = [calls EXCEPT ![i].pc = "loaded",
                            ![i].articles = loadArticlesFromHost(data, disk)]
  /\ UNCHANGED <<data, disk, nextSuffix, handed, last>>

\* loadedBy that reads the list anew when the call resumes.
loadedBy_Fresh(c) == loadArticles(data, disk)

\* The list a call works on: the one its own loadArticles returned
\* (`const articles = await this.loadArticles()`, lines 1256, 1353).
loadedBy(c) == c.articles

\* The call finds what it is to change in its list.
foundIn(c) ==
  c.op = "addArticle" \/ findIndexById(loadedBy(c), c.id) > 0

\* The list the call hands to saveArticles (lines 1259-1272, 1354-1358).
listToSave(c) ==
  IF c.op = "addArticle"
    THEN listAfterAdd(loadedBy(c), c.article)
    ELSE listAfterStatus(loadedBy(c), c.id, c.status)

\* Call i resumes after its loadArticles: it changes its list and calls
\* saveArticles, which sets both keys of the data object and starts the
\* host's write (lines 1039-1051); or it finds no such article and fails.
resumed(i) ==
  LET c == calls[i]
  IN  /\ c.pc = "loaded"
      /\ IF foundIn(c)
           THEN /\ Len(listToSave(c)) <= MaxArticles
                /\ suffixAfterSave(data, listToSave(c), nextSuffix) <= MaxSuffix
                /\ data' = dataAfterSave(data, listToSave(c), nextSuffix)
                /\ nextSuffix' = suffixAfterSave(data, listToSave(c), nextSuffix)
                /\ handed' = listToSave(c)
                /\ calls' = [calls EXCEPT ![i].pc = "writing"]
                /\ UNCHANGED <<disk, last>>
           ELSE /\ calls' = [calls EXCEPT ![i].pc = "done", ![i].error = rethrown(c.op)]
                /\ last' = Outcome(c.op, NoArticle, c.id, "none", "notfound",
                                   rethrown(c.op))
                /\ UNCHANGED <<data, disk, nextSuffix, handed>>

\* The host's write of call i returns or throws (lines 1051-1056), and the
\* call returns to its caller.
writeDone(i, writeOk) ==
  LET c == calls[i]
  IN  /\ c.pc = "writing"
      /\ disk' = IF writeOk THEN blobAfterSaveData(data) ELSE disk
      /\ calls' = [calls EXCEPT ![i].pc = "done",
                                ![i].error = IF writeOk THEN "ok" ELSE rethrown(c.op)]
      /\ last' = Outcome(c.op, c.article, c.id, c.status,
                         IF writeOk THEN "none" ELSE "write",
                         IF writeOk THEN "ok" ELSE rethrown(c.op))
      /\ UNCHANGED <<data, nextSuffix, handed>>

\* Every call has returned: the callers go on.
settled ==
  /\ calls # <<>>
  /\ \A i \in 1..Len(calls) : calls[i].pc = "done"
  /\ calls' = <<>>
  /\ UNCHANGED <<data, disk, nextSuffix, handed, last>>

NextRace ==
  \/ \E c \in RaceCalls : called(c) /\ UNCHANGED <<contextVars, hookVars>>
  \/ \E i \in 1..Len(calls) : readDone(i) /\ UNCHANGED <<contextVars, hookVars>>
  \/ \E i \in 1..Len(calls) : resumed(i) /\ UNCHANGED <<contextVars, hookVars>>
  \/ \E i \in 1..Len(calls), writeOk \in BOOLEAN :
       writeDone(i, writeOk) /\ UNCHANGED <<contextVars, hookVars>>
  \/ settled /\ UNCHANGED <<contextVars, hookVars>>

SpecRace == InitLifecycle /\ [][NextRace]_vars

\* ------------------------------------------------ order of the chunk ids

\* A chunk map of three chunks of different content.
OrderChunks ==
  (chunkIdOf("i1", 0, 0) :> <<"<", "a">>)
    @@ (chunkIdOf("i1", 1, 1) :> <<"b">>)
    @@ (chunkIdOf("i1", 2, 2) :> <<"a", "b">>)

\* The sequences without repetition of up to n ids out of a set of chunk ids.
arrangements(chunkIds, n) ==
  UNION { { s \in [1..m -> chunkIds] : \A i, j \in 1..m : s[i] = s[j] => i = j } :
            m \in 1..n }

\* contentChunks[chunkId] = chunk (line 1008) for the ids of `order`, one after
\* the other, from an empty map: the map as a lookup table.
RECURSIVE assigned(_, _)
assigned(order, contentChunks) ==
  IF order = <<>>
    THEN <<>>
    ELSE (order[Len(order)] :> contentChunks[order[Len(order)]])
           @@ assigned(SubSeq(order, 1, Len(order) - 1), contentChunks)

\* A record stored in chunks whose contentChunkIds list is `chunkIds`.
ChunkedRecord(id, url, chunkIds) ==
  [isNull |-> FALSE, id |-> id, url |-> url, status |-> "unread",
   content |-> <<"<">> \o PreviewTail, contentChunkIds |-> chunkIds]

\* processArticleData on records whose chunk ids come in every order, over a
\* chunk map whose keys were assigned in every order.
InitOrder ==
  /\ \E first, second \in arrangements(DOMAIN OrderChunks, 3),
        order \in arrangements(DOMAIN OrderChunks, 3), n \in 1..2 :
       /\ Len(order) = 3
       /\ data = [articles |->
                    ListOf(SubSeq(<<ChunkedRecord("i1", "u1", first),
                                    ChunkedRecord("i2", "u2", second)>>, 1, n)),
                  chunks |-> ChunksOf(assigned(order, OrderChunks))]
  /\ disk = EmptyData
  /\ nextSuffix = 3
  /\ handed = <<>>
  /\ last = Outcome("init", NoArticle, "none", "none", "none", "none")
  /\ calls = <<>>
  /\ NoView

NextOrder ==
  \E readOk \in BOOLEAN : refreshArticles(readOk) /\ UNCHANGED hookVars

SpecOrder == InitOrder /\ [][NextOrder]_vars

\* ------------------------------------------------------------- properties

\* What loadArticles returns now.
loaded == loadArticles(data, disk)

\* The records under the article key of the data object.
stored == data.articles.items

\* The content a save followed by a load yields for a content handed in.
contentAfterRoundTrip(C) ==
  IF C = <<>> THEN LostNotice
  ELSE IF isBlank(C) THEN EmptyNotice
  ELSE IF includesMarkup(C) THEN C
  ELSE wrapInParagraph(C)

\* The fields two entries of a loaded list are compared on.
sameArticle(x, y) ==
  /\ x.id = y.id
  /\ x.url = y.url
  /\ x.status = y.status
  /\ x.content = y.content

isChunked(record) == Len(record.contentChunkIds) > 0

completed(op) == last.op = op /\ last.error = "ok"

\* C1, as the spec states it: after saveArticles(list) completes, loadArticles
\* returns every article of the list with exactly the content handed in.
C1_RoundTripExact ==
  completed("saveArticles") =>
    /\ Len(loaded) = Len(handed)
    /\ \A i \in 1..Len(handed) : loaded[i].content = handed[i].content

\* C1, amended: after saveArticles(list) completes, loadArticles returns every
\* article of the list, with exactly the content handed in when that content
\* is not blank and contains markup (whatever its length), with the "content
\* was lost" notice when it is empty, with the "appears to be empty" notice
\* when it is whitespace only, and wrapped in a paragraph when it is not blank
\* and contains no markup.
C1_RoundTripNormalised ==
  completed("saveArticles") =>
    /\ Len(loaded) = Len(handed)
    /\ \A i \in 1..Len(handed) :
         LET C == handed[i].content
         IN  /\ (~isBlank(C) /\ includesMarkup(C)) => loaded[i].content = C
             /\ C = <<>> => loaded[i].content = LostNotice
             /\ (C # <<>> /\ isBlank(C)) => loaded[i].content = EmptyNotice
             /\ (~isBlank(C) /\ ~includesMarkup(C)) =>
                  loaded[i].content = wrapInParagraph(C)

\* C1's case: a save of content with markup, longer than the chunk size, next
\* to an empty content, came back from the load.
C1_Witness ==
  /\ completed("saveArticles")
  /\ Len(handed) = 2
  /\ handed[1].content = <<>>
  /\ Len(handed[2].content) > CONTENT_CHUNK_SIZE
  /\ includesMarkup(handed[2].content)
  /\ isChunked(stored[2])
  /\ loaded[2].content = handed[2].content

\* C2, as the spec states it: for every stored article with chunk ids, every
\* id is a key of the chunk map and the chunks, concatenated in the order of
\* contentChunkIds, are exactly the content handed to the save, which is what
\* loadArticles returns.
C2_ChunksYieldHandedContent ==
  data.articles.kind = "list" =>
    /\ Len(handed) = Len(stored)
    /\ Len(loaded) = Len(stored)
    /\ \A i \in 1..Len(stored) :
         isChunked(stored[i]) =>
           /\ \A k \in 1..Len(stored[i].contentChunkIds) :
                stored[i].contentChunkIds[k] \in DOMAIN data.chunks.map
           /\ reassembleContentFromChunks(stored[i].contentChunkIds, data.chunks.map)
                = handed[i].content
           /\ loaded[i].content = handed[i].content

\* C2, amended: for every stored article with chunk ids, every id is a key of
\* the chunk map and the chunks, concatenated in the order of contentChunkIds,
\* are exactly the content the save stored, that is the content handed to it,
\* wrapped in a paragraph when it has no markup; loadArticles returns that.
C2_ChunksYieldStoredContent ==
  data.articles.kind = "list" =>
    /\ Len(handed) = Len(stored)
    /\ Len(loaded) = Len(stored)
    /\ \A i \in 1..Len(stored) :
         isChunked(stored[i]) =>
           /\ \A k \in 1..Len(stored[i].contentChunkIds) :
                stored[i].contentChunkIds[k] \in DOMAIN data.chunks.map
           /\ reassembleContentFromChunks(stored[i].contentChunkIds, data.chunks.map)
                = (IF includesMarkup(handed[i].content)
                     THEN handed[i].content
                     ELSE wrapInParagraph(handed[i].content))
           /\ loaded[i].content
                = reassembleContentFromChunks(stored[i].contentChunkIds, data.chunks.map)

\* C2's case: after a status change, a chunked article is stored next to the
\* chunks an earlier save left in the chunk map.
C2_Witness ==
  /\ completed("updateArticleStatus")
  /\ Len(stored) = 2
  /\ isChunked(stored[2])
  /\ Cardinality(DOMAIN data.chunks.map) > Len(stored[2].contentChunkIds)
  /\ Len(loaded[2].content) > CONTENT_CHUNK_SIZE

\* C3: when saveArticles completes without error, the host's persisted blob
\* holds the article list and the chunk map that the save produced.
C3_BlobHoldsSave ==
  (last.op \in {"saveArticles", "addArticle", "updateArticle", "deleteArticle",
                "updateArticleStatus"} /\ last.error = "ok") =>
    /\ disk.articles = data.articles
    /\ disk.chunks = data.chunks

\* C4: when loadArticles takes the article list from the persisted blob (the
\* data object has no article key), every chunked article of that list whose
\* chunks the blob holds is returned with the content its chunks give.
C4_LoadReassemblesFromBlob ==
  (data.articles.kind = "absent" /\ disk.articles.kind = "list") =>
    /\ Len(loaded) = Len(disk.articles.items)
    /\ \A i \in 1..Len(disk.articles.items) :
         LET record == disk.articles.items[i]
         IN  ( /\ ~record.isNull
               /\ isChunked(record)
               /\ \A k \in 1..Len(record.contentChunkIds) :
                    record.contentChunkIds[k] \in DOMAIN disk.chunks.map )
             => loaded[i].content
                  = reassembleContentFromChunks(record.contentChunkIds, disk.chunks.map)

\* C5: updateArticle, deleteArticle and updateArticleStatus with an id that no
\* article of the loaded list has fail as not found and leave the data object,
\* the persisted blob and what loadArticles returns as they were.
C5_NotFoundLeavesStore ==
  [][ ( /\ last'.op \in {"updateArticle", "deleteArticle", "updateArticleStatus"}
        /\ \A i \in 1..Len(loaded) : loaded[i].id # last'.id )
      => /\ last'.cause = "notfound"
         /\ last'.error # "ok"
         /\ data' = data
         /\ disk' = disk
         /\ loadArticles(data', disk') = loaded ]_vars

\* C5's case: a delete of an unknown id failed on a store that holds two
\* articles, one of them chunked.
C5_Witness ==
  /\ last.op = "deleteArticle"
  /\ last.cause = "notfound"
  /\ Len(loaded) = 2
  /\ Len(stored) = 2
  /\ \E i \in 1..2 : isChunked(stored[i])

\* C6: the failure a caller receives for an unknown id differs from the
\* failure the same operation reports when the host write fails.
C6_NotFoundDistinguishable ==
  last.cause = "notfound" => last.error # rethrown(last.op)

\* C7: addArticle(a) that completes: when a loaded article has a's url, the
\* list handed to the save is the loaded list with the first such entry
\* replaced by a under the entry's id, and the list keeps its length; when
\* none has, it is the loaded list with a appended.  loadArticles afterwards
\* returns that list: the entry of a with a's url and status and a's content
\* as a save stores it, every other entry as before.
C7_AddReplacesOrAppends ==
  [][ (last'.op = "addArticle" /\ last'.error = "ok") =>
      LET pre == loaded
          post == loadArticles(data', disk')
          a == last'.article
          hit == { i \in 1..Len(pre) : pre[i].url = a.url }
      IN  IF hit # {}
            THEN LET k == CHOOSE i \in hit : \A j \in hit : i <= j
                 IN  /\ handed' = [pre EXCEPT ![k] = [a EXCEPT !.id = pre[k].id]]
                     /\ Len(post) = Len(pre)
                     /\ post[k].id = pre[k].id
                     /\ post[k].url = a.url
                     /\ post[k].status = a.status
                     /\ post[k].content = contentAfterRoundTrip(a.content)
                     /\ \A j \in 1..Len(pre) : j # k => sameArticle(post[j], pre[j])
            ELSE /\ handed' = Append(pre, a)
                 /\ Len(post) = Len(pre) + 1
                 /\ post[Len(post)].id = a.id
                 /\ post[Len(post)].url = a.url
                 /\ post[Len(post)].status = a.status
                 /\ post[Len(post)].content = contentAfterRoundTrip(a.content)
                 /\ \A j \in 1..Len(pre) : sameArticle(post[j], pre[j]) ]_vars

\* C7's case: an article was added whose url the second of two stored
\* articles had, under another id; the entry keeps its id.
C7_Witness ==
  /\ completed("addArticle")
  /\ Len(loaded) = 2
  /\ loaded[2].url = last.article.url
  /\ loaded[1].url # last.article.url
  /\ loaded[2].id # last.article.id
  /\ loaded[2].content = contentAfterRoundTrip(last.article.content)

\* C8: loadArticles returns one entry per record of the persisted list, in
\* order, and the entry of a record whose processing throws (a null record)
\* carries the error notice, at every position.
C8_LoadKeepsEveryRecord ==
  articlesData(data, disk).kind = "list" =>
    /\ Len(loaded) = Len(articlesData(data, disk).items)
    /\ \A i \in 1..Len(articlesData(data, disk).items) :
         articlesData(data, disk).items[i].isNull => loaded[i].content = ErrorNotice

\* C9: updateArticleStatus(id, status) that completes sets the status of the
\* first loaded article with that id; the list keeps its length and order,
\* every article its id, url and content, and every other article its status.
C9_StatusChangesOnlyStatus ==
  [][ (last'.op = "updateArticleStatus" /\ last'.error = "ok") =>
      LET pre == loaded
          post == loadArticles(data', disk')
          hit == { i \in 1..Len(pre) : pre[i].id = last'.id }
      IN  /\ hit # {}
          /\ Len(post) = Len(pre)
          /\ \A j \in 1..Len(pre) :
               /\ post[j].id = pre[j].id
               /\ post[j].url = pre[j].url
               /\ post[j].content = pre[j].content
               /\ post[j].status =
                    (IF j \in hit /\ \A i \in hit : j <= i
                       THEN last'.status
                       ELSE pre[j].status)
    ]_vars

\* C9's case: the status of the second of two articles, a chunked one, was
\* changed.
C9_Witness ==
  /\ completed("updateArticleStatus")
  /\ Len(loaded) = 2
  /\ isChunked(stored[2])
  /\ loaded[1].id # last.id
  /\ loaded[2].id = last.id
  /\ loaded[2].status = "read"
  /\ loaded[1].status = "unread"

\* C10: deleteArticle(id) that completes removes the loaded articles with that
\* id and keeps every other one, in order, with its id, url, status and
\* content.
C10_DeleteKeepsTheOthers ==
  [][ (last'.op = "deleteArticle" /\ last'.error = "ok") =>
      LET pre == loaded
          post == loadArticles(data', disk')
          kept == SelectSeq(pre, LAMBDA x : x.id # last'.id)
      IN  /\ Len(kept) < Len(pre)
          /\ Len(post) = Len(kept)
          /\ \A j \in 1..Len(kept) : sameArticle(post[j], kept[j]) ]_vars

\* C10's case: the first of two articles was deleted and the chunked second
\* one is left.
C10_Witness ==
  /\ completed("deleteArticle")
  /\ Len(loaded) = 1
  /\ loaded[1].id # last.id
  /\ isChunked(stored[1])

\* The (type, content, level, src, alt) tuples of an element sequence.
tuplesOf(elements) ==
  [i \in 1..Len(elements) |->
     <<elements[i].type, elements[i].content, elements[i].level,
       elements[i].src, elements[i].alt>>]

\* An HTML string made only of paragraphs, headings, images, lists, pre code
\* and blockquotes.
recognizedOnly(html) ==
  /\ html # <<>>
  /\ \A i \in 1..Len(html) :
       /\ html[i].nodeType = "element"
       /\ html[i].nodeName \in {"p", "h1", "h2", "h3", "h4", "h5", "h6", "img",
                                "ul", "ol", "pre", "blockquote"}

\* The step was deleteElement, deleteSelectedElements or clearHighlights and
\* its updateArticle call failed: the handler's catch raised its toast.
saveFailed ==
  /\ toast' \in {<<"Delete failed">>, <<"Clear failed">>}
  /\ last'.op = "updateArticle"
  /\ last'.error # "ok"

\* C11: when the updateArticle call of deleteElement, deleteSelectedElements
\* or clearHighlights fails, the failure is told by a toast and the hook
\* shows the element sequence it showed before the handler ran.
C11_FailedSaveReverts ==
  [][ saveFailed => hookContent' = hookContent ]_vars

\* C12: when addArticle of the article context fails because the store's
\* addArticle fails, the context displays the list it displayed before the
\* call and reports the failure.
C12_FailedAddRollsBack ==
  [][ (last'.op = "addArticle" /\ last'.error # "ok") =>
        /\ providerArticles' = providerArticles
        /\ providerError' = contextError("addArticle") ]_vars

\* C13: loadArticles never fails to its caller: a call whose host read threw
\* completed and returned the empty list, and the article context that made
\* it shows no articles and no error.
C13_LoadNeverFails ==
  last.op = "loadArticles" =>
    /\ last.error = "ok"
    /\ providerError = "null"
    /\ last.cause = "read" => providerArticles = <<>>
    /\ last.cause # "read" => providerArticles = loaded

\* C13's case: the host read threw while the host's file holds articles.
C13_Witness ==
  /\ last.op = "loadArticles"
  /\ last.cause = "read"
  /\ disk.articles.kind = "list"
  /\ Len(disk.articles.items) = 2
  /\ providerArticles = <<>>

\* C14: when the host write throws, saveArticles and every operation that
\* calls it (addArticle, updateArticle, deleteArticle, updateArticleStatus)
\* fails to its caller, with the operation's own failure.
C14_WriteFailureReported ==
  last.cause = "write" =>
    /\ last.op \in {"saveArticles", "addArticle", "updateArticle", "deleteArticle",
                    "updateArticleStatus"}
    /\ last.error # "ok"
    /\ last.error = rethrown(last.op)

\* C14's case: the host write threw under a status change of a stored
\* article.
C14_Witness ==
  /\ last.op = "updateArticleStatus"
  /\ last.cause = "write"
  /\ last.error = StatusFailed
  /\ \E i \in 1..Len(loaded) : loaded[i].id = last.id

\* C15: parseArticleContent returns at least one element for every HTML
\* string, and exactly the one fallback paragraph for an empty or blank one;
\* the hook shows at least one element once its effect has run.
C15_DecodeNeverEmpty ==
  hookArticle.defined =>
    /\ Len(parseArticleContent(hookArticle.content)) >= 1
    /\ isBlankHtml(hookArticle.content) =>
         parseArticleContent(hookArticle.content) = EmptyContent
    /\ ~effectDue => Len(hookContent) >= 1

\* C16: for an HTML string M made only of recognized elements,
\* decode(encode(decode(M))) has the (type, content, level, src, alt) tuples
\* of decode(M).
C16_DecodeEncodeDecode ==
  (hookArticle.defined /\ recognizedOnly(hookArticle.content)) =>
    tuplesOf(parseArticleContent(generateHtmlFromContent(
               parseArticleContent(hookArticle.content))))
      = tuplesOf(parseArticleContent(hookArticle.content))

savedList == data.articles.kind = "list" /\ Len(stored) = Len(handed)

\* C18, as the spec states it: saveArticles stores an article in chunks (chunk
\* ids, and a preview shorter than the content in place of the content)
\* exactly when the length of the article's content exceeds the chunk size;
\* otherwise the record has no chunk ids.
C18_ChunkedIffLong ==
  savedList =>
    \A i \in 1..Len(handed) :
      IF Len(handed[i].content) > CONTENT_CHUNK_SIZE
        THEN /\ isChunked(stored[i])
             /\ Len(stored[i].content) < Len(handed[i].content)
        ELSE stored[i].contentChunkIds = <<>>

\* C18, amended: saveArticles stores an article in chunks exactly when its
\* content is not blank and the content to store (the content itself, or the
\* content wrapped in a paragraph when it has no markup) is longer than the
\* chunk size: the record then has the ids of the chunks of that content and,
\* as its content, a preview shorter than it.  Otherwise the record has no
\* chunk ids and holds the content to store inline (the fixed notice for
\* blank content).
C18_ChunkedIffStoredLong ==
  savedList =>
    \A i \in 1..Len(handed) :
      LET C == handed[i].content
          V == validContentOf(C)
      IN  IF ~isBlank(C) /\ Len(V) > CONTENT_CHUNK_SIZE
            THEN /\ isChunked(stored[i])
                 /\ stored[i].content = substringTo(V, PREVIEW_LEN) \o PreviewTail
                 /\ Len(stored[i].content) < Len(V)
                 /\ reassembleContentFromChunks(stored[i].contentChunkIds,
                                                data.chunks.map) = V
            ELSE /\ stored[i].contentChunkIds = <<>>
                 /\ stored[i].content =
                      (IF C = <<>> THEN LostNotice
                       ELSE IF isBlank(C) THEN EmptyNotice
                       ELSE V)

\* C18's case: text without markup that is no longer than the chunk size was
\* stored in chunks, next to text that just fits when wrapped and is stored
\* inline.
C18_Witness ==
  /\ completed("saveArticles")
  /\ Len(handed) = 2
  /\ handed[1].content = <<"a", "b">>
  /\ isChunked(stored[1])
  /\ handed[2].content = <<"a">>
  /\ ~isChunked(stored[2])
  /\ Len(stored[2].content) = CONTENT_CHUNK_SIZE

\* C19: saving an article whose content is the empty string stores the fixed
\* notice for empty content ("Article content appears to be empty") in place
\* of the content, and no chunk ids.
C19_EmptyStoredAsEmptyNotice ==
  savedList =>
    \A i \in 1..Len(handed) :
      handed[i].content = <<>> =>
        /\ stored[i].content = EmptyNotice
        /\ stored[i].contentChunkIds = <<>>

\* The chunks of the ids that are keys of the chunk map, in the order of the
\* ids.
RECURSIVE presentChunks(_, _)
presentChunks(chunkIds, contentChunks) ==
  LET present == SelectSeq(chunkIds, LAMBDA chunkId : chunkId \in DOMAIN contentChunks)
  IN  IF present = <<>>
        THEN <<>>
        ELSE contentChunks[Head(present)] \o presentChunks(Tail(present), contentChunks)

\* A chunk id of the record is not a key of the chunk map.
hasGap(record) ==
  \E k \in 1..Len(record.contentChunkIds) :
    record.contentChunkIds[k] \notin DOMAIN data.chunks.map

\* C20, as the spec states it: when a chunk id of a record is absent from the
\* chunk map, loadArticles still returns an entry for every record, and for
\* that record the string of the chunks that are present, in list order.
C20_GapGivesPartialString ==
  data.articles.kind = "list" =>
    /\ Len(loaded) = Len(stored)
    /\ \A i \in 1..Len(stored) :
         (isChunked(stored[i]) /\ hasGap(stored[i])) =>
           loaded[i].content = presentChunks(stored[i].contentChunkIds, data.chunks.map)

\* C20, amended: when a chunk id of a record is absent from the chunk map,
\* loadArticles still returns an entry for every record, and for that record
\* the string of the chunks that are present, in list order, when that string
\* contains markup; that string wrapped in a paragraph when it is not empty
\* and contains no markup; and the fixed "could not be reassembled" notice
\* when it is empty (no chunk of the record is present).
C20_GapGivesPartialOrNotice ==
  data.articles.kind = "list" =>
    /\ Len(loaded) = Len(stored)
    /\ \A i \in 1..Len(stored) :
         (isChunked(stored[i]) /\ hasGap(stored[i])) =>
           LET partial == presentChunks(stored[i].contentChunkIds, data.chunks.map)
           IN  loaded[i].content =
                 (IF partial = <<>> THEN ReassembleNotice
                  ELSE IF includesMarkup(partial) THEN partial
                  ELSE wrapInParagraph(partial))

\* C20's case: the middle chunk of three is missing and the article context
\* shows the first and the third chunk, joined.
C20_Witness ==
  /\ last.op = "loadArticles"
  /\ Len(stored) = 2
  /\ Len(stored[1].contentChunkIds) = 3
  /\ stored[1].contentChunkIds[1] \in DOMAIN data.chunks.map
  /\ stored[1].contentChunkIds[2] \notin DOMAIN data.chunks.map
  /\ stored[1].contentChunkIds[3] \in DOMAIN data.chunks.map
  /\ providerArticles[1].content = <<"<p>", "a", "b", "b", "</p>">>
  /\ ~hasGap(stored[2])

\* The content the validation rules of loadArticles give for an inline
\* content: a fixed notice for an empty or blank one, the content itself when
\* it contains markup, else the content wrapped in a paragraph.
validatedAsLoad(C, written) ==
  IF C = <<>> \/ isBlank(C)
    THEN Len(written) = 1 /\ written[1] \in NoticeTokens
    ELSE written = (IF includesMarkup(C) THEN C ELSE wrapInParagraph(C))

\* C21: the record updateArticle hands to saveArticles carries the new
\* content validated by the rules of loadArticles: a fixed notice in place of
\* an empty or whitespace-only content, a paragraph around content without
\* markup, and content with markup as it is.
C21_UpdateValidatesAsLoad ==
  [][ \A a \in UpdateArticles, writeOk \in BOOLEAN :
        (updateArticle(a, writeOk) /\ last'.cause # "notfound") =>
          validatedAsLoad(a.content,
                          handed'[findIndexById(handed', a.id)].content) ]_vars

\* The data object with the value under its article key replaced.
withArticles(d, value) == [d EXCEPT !.articles = value]

\* C22: when the value loadArticles finds under the article key is a map with
\* values, it returns what it returns for the list of those values; when the
\* value is a map without values or not a map at all, it returns the empty
\* list; and it does not fail.
C22_NotAListRecovered ==
  (last.op = "loadArticles" /\ last.cause # "read") =>
    LET found == articlesData(data, disk)
    IN  /\ last.error = "ok"
        /\ (found.kind = "map" /\ Len(found.items) > 0) =>
             providerArticles = loadArticles(withArticles(data, ListOf(found.items)), disk)
        /\ (found.kind = "scalar" \/ (found.kind = "map" /\ Len(found.items) = 0)) =>
             providerArticles = <<>>

\* C22's case: loadArticles found a map of two records and returned both.
C22_Witness ==
  /\ last.op = "loadArticles"
  /\ last.cause # "read"
  /\ articlesData(data, disk).kind = "map"
  /\ Len(articlesData(data, disk).items) = 2
  /\ Len(providerArticles) = 2
  /\ providerArticles[1].id = "i1"
  /\ providerArticles[2].id = "i2"

\* The top-level element nodes of an HTML string that neither parser has a
\* case for and neither skips.
unrecognizedNodes(html) ==
  { children(html)[i] : i \in { j \in 1..Len(children(html)) :
      children(html)[j].nodeName \notin ViewTags \cup {"script", "style"} } }

\* The elements show the node `child` as a top-level node is shown.
shownAsTopLevel(elements, child) ==
  \E i \in 1..Len(elements) :
    /\ elements[i].type = elementOf(child, 0).type
    /\ elements[i].content = elementOf(child, 0).content

\* C23: an HTML string decoded, each of its top-level nodes without a case
\* that has child elements is shown through its children (each child with a
\* case as if it were a top-level node, the node itself not as one paragraph),
\* and each one without child elements is shown as one paragraph over its
\* outer markup.
C23_UnrecognizedFlattenedOrKept ==
  (hookArticle.defined /\ ~effectDue) =>
    \A node \in unrecognizedNodes(hookArticle.content) :
      IF Len(children(node.childNodes)) > 0
        THEN /\ \A i \in 1..Len(children(node.childNodes)) :
                  children(node.childNodes)[i].nodeName \in {"p", "h2"} =>
                    shownAsTopLevel(hookContent, children(node.childNodes)[i])
             /\ \A i \in 1..Len(hookContent) : hookContent[i].content # <<node>>
        ELSE \E i \in 1..Len(hookContent) :
               /\ hookContent[i].type = "paragraph"
               /\ hookContent[i].content = <<node>>

\* The (id, url, status) triples of an article list.
identitiesOf(articles) ==
  [i \in 1..Len(articles) |-> <<articles[i].id, articles[i].url, articles[i].status>>]

\* The list a call's own load and its own change give.
ownList(c) ==
  IF c.op = "addArticle"
    THEN listAfterAdd(c.articles, c.article)
    ELSE listAfterStatus(c.articles, c.id, c.status)

\* C24: the last save wins over the entire collection: when a call saves, the
\* stored list becomes the list that call loaded with its own change applied,
\* whatever the other calls have saved since that load, so an article added
\* in between by a call that reports success is gone.
C24_LastSaveWins ==
  [][ \A i \in 1..Len(calls) :
        (calls[i].pc = "loaded" /\ calls'[i].pc = "writing") =>
          identitiesOf(loadArticles(data', disk')) = identitiesOf(ownList(calls[i])) ]_vars

\* C24's case: two addArticle calls of different articles both loaded from
\* the host's file before either saved, both reported success, and the store
\* holds the second call's article only.
C24_Witness ==
  /\ Len(calls) = 2
  /\ \A i \in 1..2 : /\ calls[i].op = "addArticle"
                     /\ calls[i].pc = "done"
                     /\ calls[i].error = "ok"
                     /\ calls[i].from = "host"
  /\ calls[1].article.id = "i1"
  /\ calls[2].article.id = "i2"
  /\ identitiesOf(loaded) = <<<<"i2", "u2", "unread">>>>

\* The chunk ids the records of a stored list refer to.
chunkIdsOf(records) ==
  UNION { { records[i].contentChunkIds[j] : j \in 1..Len(records[i].contentChunkIds) } :
            i \in 1..Len(records) }

\* C25: every operation of the store leaves each entry of the chunk map as it
\* was, and a save adds exactly the chunks of the articles it stored in
\* chunks: the key set never shrinks, and the chunks of deleted, saved-again
\* or no longer chunked articles stay in the map.
C25_ChunkMapOnlyGrows ==
  [][ LET before == loadedChunks(data)
          after == loadedChunks(data')
      IN  /\ \A chunkId \in DOMAIN before :
               chunkId \in DOMAIN after /\ after[chunkId] = before[chunkId]
          /\ last'.cause # "notfound" =>
               (DOMAIN after) \ (DOMAIN before) = chunkIdsOf(data'.articles.items) ]_vars

\* C25's case: the only article, stored in chunks, was deleted and its chunks
\* are still in the map, which no record refers to.
C25_Witness ==
  /\ completed("deleteArticle")
  /\ stored = <<>>
  /\ Cardinality(DOMAIN loadedChunks(data)) >= 2

\* The number of chunk ids the records of a stored list carry.
RECURSIVE chunkIdCount(_)
chunkIdCount(records) ==
  IF records = <<>>
    THEN 0
    ELSE Len(Head(records).contentChunkIds) + chunkIdCount(Tail(records))

\* C26: uuidv4 handing out a fresh token on every call, a save gives its
\* chunks ids that are not in the chunk map yet, that differ from one another
\* and that differ from the ids the stored records carried before; the
\* entries the map held keep their content.
C26_ChunkIdsAreNew ==
  [][ last'.cause # "notfound" =>
        LET before == loadedChunks(data)
            newIds == chunkIdsOf(data'.articles.items)
        IN  /\ newIds \cap DOMAIN before = {}
            /\ Cardinality(newIds) = chunkIdCount(data'.articles.items)
            /\ newIds \cap chunkIdsOf(data.articles.items) = {}
            /\ \A chunkId \in DOMAIN before :
                 loadedChunks(data')[chunkId] = before[chunkId] ]_vars

\* C26's case: the only article, stored in chunks, was saved again in chunks,
\* and the map holds both generations of its first chunk.
C26_Witness ==
  /\ last.error = "ok"
  /\ Len(stored) = 1
  /\ isChunked(stored[1])
  /\ \E old \in DOMAIN loadedChunks(data) :
       /\ old[1] = stored[1].contentChunkIds[1][1]
       /\ old[2] = 0
       /\ old # stored[1].contentChunkIds[1]

\* The chunks of a sequence of chunks put together in order.
RECURSIVE concatenated(_)
concatenated(chunks) ==
  IF chunks = <<>> THEN <<>> ELSE Head(chunks) \o concatenated(Tail(chunks))

\* What C27 says of the chunks of a content C.
splitsAsStated(C) ==
  LET chunks == splitContentIntoChunks(C)
      size == CONTENT_CHUNK_SIZE
  IN  /\ Len(chunks) = (Len(C) + size - 1) \div size
      /\ concatenated(chunks) = C
      /\ \A i \in 1..(Len(chunks) - 1) : Len(chunks[i]) = size
      /\ Len(chunks) > 0 =>
           Len(chunks[Len(chunks)]) = (IF Len(C) % size = 0 THEN size ELSE Len(C) % size)
      /\ C = <<>> => chunks = <<>>

\* C27: splitContentIntoChunks gives ceil(length / chunk size) chunks that put
\* together in order are the content, each of the chunk size but the last,
\* which holds the remainder (a whole chunk when the remainder is zero), and no
\* chunk for the empty content; a save that stores an article in chunks gives
\* it that many chunk ids.
C27_SplitCountAndSizes ==
  \A i \in 1..Len(handed) :
    /\ splitsAsStated(handed[i].content)
    /\ splitsAsStated(wrapInParagraph(handed[i].content))
    /\ (i <= Len(stored) /\ isChunked(stored[i])) =>
         Len(stored[i].contentChunkIds)
           = (Len(validContentOf(handed[i].content)) + CONTENT_CHUNK_SIZE - 1)
               \div CONTENT_CHUNK_SIZE

\* C27's case: a saved content whose stored form is exactly two chunks long,
\* stored in two chunks, the last one a whole chunk.
C27_Witness ==
  /\ Len(handed) >= 1
  /\ Len(validContentOf(handed[1].content)) = 2 * CONTENT_CHUNK_SIZE
  /\ Len(stored[1].contentChunkIds) = 2
  /\ Len(loadedChunks(data)[stored[1].contentChunkIds[2]]) = CONTENT_CHUNK_SIZE

\* The orders in which the keys of a chunk map can have been assigned.
insertionOrders(contentChunks) ==
  { order \in arrangements(DOMAIN contentChunks, Cardinality(DOMAIN contentChunks)) :
      Len(order) = Cardinality(DOMAIN contentChunks) }

\* The chunks of the ids of a list, in the order of the list.
chunksInListOrder(chunkIds, contentChunks) ==
  concatenated([i \in 1..Len(chunkIds) |-> contentChunks[chunkIds[i]]])

\* C28: what a record's content is reassembled to follows the order of its
\* contentChunkIds list alone: it is the chunks of those ids put together in
\* list order (in a paragraph when they hold no markup), and it is the same
\* for the chunk map built by assigning the same entries in any other order.
C28_OrderFromIdListOnly ==
  last.op = "loadArticles" =>
    /\ Len(providerArticles) = Len(stored)
    /\ \A i \in 1..Len(stored) :
         LET reassembled ==
               chunksInListOrder(stored[i].contentChunkIds, loadedChunks(data))
         IN  providerArticles[i].content
               = (IF includesMarkup(reassembled)
                    THEN reassembled
                    ELSE wrapInParagraph(reassembled))
    /\ \A order \in insertionOrders(loadedChunks(data)) :
         loadArticles([data EXCEPT !.chunks = ChunksOf(assigned(order, loadedChunks(data)))],
                      disk)
           = providerArticles

\* C28's case: a record whose id list names the three chunks in reverse key
\* order was loaded.
C28_Witness ==
  /\ last.op = "loadArticles"
  /\ stored[1].contentChunkIds
       = <<chunkIdOf("i1", 2, 2), chunkIdOf("i1", 1, 1), chunkIdOf("i1", 0, 0)>>
  /\ providerArticles[1].content = <<"a", "b", "b", "<", "a">>

\* C29: a mutating operation whose host write fails leaves what loadArticles
\* returns as it was before the operation: the same articles with the same
\* contents.
C29_FailedWriteChangesNothing ==
  [][ last'.cause = "write" =>
        loadArticles(data', disk') = loadArticles(data, disk) ]_vars

\* The ids of the elements the hook shows highlighted.
highlightedIds ==
  { hookContent[i].id : i \in { j \in 1..Len(hookContent) : hookContent[j].isHighlighted } }

\* C30: with an article loaded, the selection holds exactly the ids of the
\* shown elements that are highlighted, so hasHighlightedElements (a selection
\* that is not empty) tells that some shown element is highlighted.
C30_SelectionMatchesHighlights ==
  hookArticle.defined =>
    /\ selectedIds = highlightedIds
    /\ (selectedIds # {}) <=> (highlightedIds # {})

====
